---- MODULE Spec2Model ----
(***************************************************************************)
(* Market-Mood engine: the forecasting engine (src/src/forecaster.py) and  *)
(* the trend detection engine (src/src/trend_detector.py) over the SQLite  *)
(* signal store (src/src/database.py).                                     *)
(*                                                                         *)
(* Time is counted in hours; a timestamp is an integer number of hours and *)
(* one calendar day is 24 of them.  Forecast numbers (value, lower_bound,  *)
(* upper_bound) are kept in tenths of a unit, so 25 stands for 2.5; the    *)
(* float NaN is the reserved number NaN.  Arithmetic on the reals is exact *)
(* (rationals, and comparisons with a square root done by squaring).       *)
(***************************************************************************)
EXTENDS Integers, Sequences, FiniteSets, TLC

VARIABLES
    now,                \* datetime.now(), in hours
    sales,              \* table ecommerce_sales
    ARIMA_AVAILABLE,    \* module flag set by the import of statsmodels
    PROPHET_AVAILABLE,  \* module flag set by the import of prophet
    request,            \* the call in progress / last served
    data,               \* the prepared daily series of that call
    lib,                \* what the fitted library models did in that call
    forecast,           \* the forecast returned to the caller
    articles,           \* table articles
    tweets,             \* table tweets
    google_trends,      \* table google_trends
    detected,           \* the trend list computed by the call
    agreement,          \* the result of check_cross_source_agreement
    warnings,           \* the warning list returned by get_early_warnings
    returned,           \* the value returned by a call of another method
    reddit_posts,       \* table reddit_posts
    models,             \* Forecaster.models
    forecast_cache,     \* Forecaster.forecast_cache
    threads,            \* the calls in flight on the shared instances
    retry               \* a collector's retry_with_backoff call in progress

vars == <<now, sales, ARIMA_AVAILABLE, PROPHET_AVAILABLE, request, data, lib, forecast,
          articles, tweets, google_trends, detected, agreement, warnings, returned,
          reddit_posts, models, forecast_cache, threads, retry>>
\* What the calls of the two engines neither read nor write.
otherVars == <<reddit_posts, models, forecast_cache, threads, retry>>
forecastVars == <<sales, ARIMA_AVAILABLE, PROPHET_AVAILABLE, data, lib, forecast>>
trendVars == <<articles, tweets, google_trends, detected, agreement, warnings, returned>>

-----------------------------------------------------------------------------
(* Bounds of the model *)

MaxSales == 3
MaxDaysAhead == 2
MaxArticles == 4
MaxTweets == 2
MaxTrendSamples == 3
MaxSourceCount == 5

(* Program constants *)

LookbackDays == 14
MinObservations == 7
MovingWindow == 7
NaN == -999999

Categories == {"phones", "laptops"}
Models == {"arima", "prophet", "ensemble", "simple"}
SaleCounts == {1, 5}
\* Ages, in days, of the sales records offered to the store: inside the
\* lookback of forecast_category, and one before it.
SaleAges == {0, 1, 2, 6, 7, LookbackDays + 1}

-----------------------------------------------------------------------------
(* Numbers *)

Max(a, b) == IF a >= b THEN a ELSE b
Min(a, b) == IF a <= b THEN a ELSE b
Abs(a) == IF a >= 0 THEN a ELSE -a

\* Python's max(0, x): x when x > 0, else 0 (also when x is NaN, for which
\* the comparison x > 0 is false).
PyMax0(x) == IF x # NaN /\ x > 0 THEN x ELSE 0

\* Python's a >= b on floats: false as soon as one side is NaN.
PyGe(a, b) == a # NaN /\ b # NaN /\ a >= b

\* round(A/B, 0) for B > 0: to the nearest integer, ties to the even one.
PyRound(A, B) ==
    LET q == A \div B
        r == A % B
    IN  IF 2 * r < B THEN q
        ELSE IF 2 * r > B THEN q + 1
        ELSE IF q % 2 = 0 THEN q ELSE q + 1

\* sqrt(N/D) >= P/Q and sqrt(N/D) <= P/Q, for N >= 0, D > 0, Q > 0.
SqrtGe(N, D, P, Q) == P <= 0 \/ P * P * D <= N * Q * Q
SqrtLe(N, D, P, Q) == P >= 0 /\ N * Q * Q <= P * P * D

\* A/B + sg*sqrt(N/D) compared with the half-integer k/2 (sg is 1 or -1).
SurdGeHalf(A, B, sg, N, D, k) ==
    IF sg = 1 THEN SqrtGe(N, D, k * B - 2 * A, 2 * B)
              ELSE SqrtLe(N, D, 2 * A - k * B, 2 * B)
SurdLeHalf(A, B, sg, N, D, k) ==
    IF sg = 1 THEN SqrtLe(N, D, k * B - 2 * A, 2 * B)
              ELSE SqrtGe(N, D, 2 * A - k * B, 2 * B)

\* The least r >= from with r*r*D >= N: an upper bound of sqrt(N/D).
RECURSIVE CeilSqrt(_, _, _)
CeilSqrt(N, D, from) ==
    IF from * from * D >= N THEN from ELSE CeilSqrt(N, D, from + 1)

\* round(A/B + sg*sqrt(N/D), 0), ties to even.
RoundSurd(A, B, sg, N, D) ==
    LET c == A \div B
        R == CeilSqrt(N, D, 0) + 1
    IN  CHOOSE n \in (c - R)..(c + R + 1) :
            /\ SurdGeHalf(A, B, sg, N, D, 2 * n - 1)
            /\ SurdLeHalf(A, B, sg, N, D, 2 * n + 1)
            /\ (SurdLeHalf(A, B, sg, N, D, 2 * n - 1) => n % 2 = 0)
            /\ (SurdGeHalf(A, B, sg, N, D, 2 * n + 1) => n % 2 = 0)

RECURSIVE SeqSum(_)
SeqSum(s) == IF s = <<>> THEN 0 ELSE Head(s) + SeqSum(Tail(s))

RECURSIVE SeqSumSq(_)
SeqSumSq(s) == IF s = <<>> THEN 0 ELSE Head(s) * Head(s) + SeqSumSq(Tail(s))

-----------------------------------------------------------------------------
(* Time-series preparer *)

RECURSIVE SumCounts(_)
SumCounts(rows) ==
    IF rows = {} THEN 0
    ELSE LET r == CHOOSE x \in rows : TRUE
         IN  r.sales_count + SumCounts(rows \ {r})

SetMin(S) == CHOOSE x \in S : \A y \in S : x <= y
SetMax(S) == CHOOSE x \in S : \A y \in S : x >= y

\* df.groupby('date').agg(sum), reindex on date_range(min, max, freq='D'),
\* fillna(method='ffill'): the k-th entry (k from 0) is the sum of the rows
\* whose timestamp is exactly min + k days, or else the entry before it.
RECURSIVE FilledValue(_, _, _)
FilledValue(rows, first, k) ==
    LET at == {r \in rows : r.date = first + 24 * k}
    IN  IF at # {} \/ k = 0 THEN SumCounts(at)
        ELSE FilledValue(rows, first, k - 1)

prepare_time_series_data(category, days) ==
    LET cutoff_date == now - 24 * days
        rows == {r \in sales : r.category = category /\ r.date >= cutoff_date}
    IN  IF rows = {} THEN <<>>
        ELSE LET first == SetMin({r.date : r \in rows})
                 last == SetMax({r.date : r \in rows})
             IN  [k \in 1..((last - first) \div 24 + 1) |->
                    [date |-> first + 24 * (k - 1),
                     sales_count |-> FilledValue(rows, first, k - 1)]]

Counts(series) == [k \in 1..Len(series) |-> series[k].sales_count]

-----------------------------------------------------------------------------
(* Forecast producers.  A producer returns the result dictionary plus, in  *)
(* lib_calls, the library models it fitted on the way.                     *)

\* What a fitted library model does for one call: its fit or forecast throws,
\* or every step gets the point forecast val with the interval [lo, hi]
\* (tenths; a fitted model may forecast below zero).
LibPoints ==
    { [val |-> 25,  lo |-> 14,  hi |-> 47],
      [val |-> -15, lo |-> -33, hi |-> 4] }
LibOutcomes ==
    {[status |-> "throws"]} \cup {[status |-> "ok", point |-> p] : p \in LibPoints}
NotCalled == [status |-> "not_called"]

\* An exception that leaves a producer instead of a result dictionary.
Raised(calls) == [model |-> "Raised", forecasts |-> <<>>, lib_calls |-> calls]

\* Forecaster._simple_forecast on an empty frame.
simple_forecast_empty(periods) ==
    [model |-> "Simple",
     forecasts |-> [i \in 1..periods |->
        [date |-> now + 24 * i, value |-> 0, lower_bound |-> 0, upper_bound |-> 0]],
     lib_calls |-> {}]

\* The step of index i (from 0) of the moving-average forecast: the level is
\* the mean S/w of the last w observations, the trend per step is d/3 and the
\* band is twice the sample standard deviation sqrt((w*Q - S*S)/(w*(w-1))),
\* which pandas gives as NaN for a window of one observation.
simple_point(series, i) ==
    LET n == Len(series)
        xs == Counts(series)
        w == Min(MovingWindow, n)
        tail == SubSeq(xs, n - w + 1, n)
        S == SeqSum(tail)
        Q == SeqSumSq(tail)
        d == IF n >= 3 THEN xs[n] - xs[n - 2] ELSE 0
        A == 3 * S + i * d * w
        B == 3 * w
        N == 4 * (w * Q - S * S)
        D == w * (w - 1)
    IN  [date |-> series[n].date + 24 * (i + 1),
         value |-> PyMax0(10 * PyRound(A, B)),
         lower_bound |-> IF w = 1 THEN PyMax0(NaN)
                         ELSE PyMax0(10 * RoundSurd(A, B, -1, N, D)),
         upper_bound |-> IF w = 1 THEN NaN
                         ELSE 10 * RoundSurd(A, B, 1, N, D)]

simple_forecast(series, periods) ==
    IF series = <<>> THEN simple_forecast_empty(periods)
    ELSE [model |-> "Simple",
          forecasts |-> [i \in 1..periods |-> simple_point(series, i - 1)],
          model_params |-> [method |-> "moving_average",
                            window |-> Min(MovingWindow, Len(series))],
          lib_calls |-> {}]

\* The forecasts list built from a fitted model's output: value and lower
\* bound clamped at 0, the upper bound taken as it comes.
fitted_forecasts(series, periods, point) ==
    [i \in 1..periods |->
        [date |-> series[Len(series)].date + 24 * i,
         value |-> PyMax0(point.val),
         lower_bound |-> PyMax0(point.lo),
         upper_bound |-> point.hi]]

\* forecast_arima with the length test off by one (len(data) < 6).
forecast_arima_short(series, periods, outcome) ==
    IF ~ARIMA_AVAILABLE \/ series = <<>> \/ Len(series) < MinObservations - 1
    THEN simple_forecast(series, periods)
    ELSE IF outcome.status = "throws"
    THEN [simple_forecast(series, periods) EXCEPT !.lib_calls = {"ARIMA"}]
    ELSE [model |-> "ARIMA",
          forecasts |-> fitted_forecasts(series, periods, outcome.point),
          model_params |-> [order |-> "(1,1,1)"],
          lib_calls |-> {"ARIMA"}]

\* forecast_arima without its except clause: a failing fit propagates.
forecast_arima_nocatch(series, periods, outcome) ==
    IF ~ARIMA_AVAILABLE \/ series = <<>> \/ Len(series) < MinObservations
    THEN simple_forecast(series, periods)
    ELSE IF outcome.status = "throws"
    THEN Raised({"ARIMA"})
    ELSE [model |-> "ARIMA",
          forecasts |-> fitted_forecasts(series, periods, outcome.point),
          model_params |-> [order |-> "(1,1,1)"],
          lib_calls |-> {"ARIMA"}]

forecast_arima(series, periods, outcome) ==
    IF ~ARIMA_AVAILABLE \/ series = <<>> \/ Len(series) < MinObservations
    THEN simple_forecast(series, periods)
    ELSE IF outcome.status = "throws"
    THEN [simple_forecast(series, periods) EXCEPT !.lib_calls = {"ARIMA"}]
    ELSE [model |-> "ARIMA",
          forecasts |-> fitted_forecasts(series, periods, outcome.point),
          model_params |-> [order |-> "(1,1,1)"],
          lib_calls |-> {"ARIMA"}]

forecast_prophet(series, periods, outcome) ==
    IF ~PROPHET_AVAILABLE \/ series = <<>> \/ Len(series) < MinObservations
    THEN simple_forecast(series, periods)
    ELSE IF outcome.status = "throws"
    THEN [simple_forecast(series, periods) EXCEPT !.lib_calls = {"Prophet"}]
    ELSE [model |-> "Prophet",
          forecasts |-> fitted_forecasts(series, periods, outcome.point),
          model_params |-> [seasonality |-> "daily_weekly", interval_width |-> 95],
          lib_calls |-> {"Prophet"}]

\* ensemble_point with the narrower of the two intervals: the greater lower
\* bound and the smaller upper bound.
ensemble_point_narrow(a, p) ==
    [date |-> a.date,
     value |-> 10 * PyRound(4 * a.value + 6 * p.value, 100),
     lower_bound |-> 10 * PyRound(PyMax0(Max(a.lower_bound, p.lower_bound)), 10),
     upper_bound |-> 10 * PyRound(Min(a.upper_bound, p.upper_bound), 10),
     arima_value |-> 10 * PyRound(a.value, 10),
     prophet_value |-> 10 * PyRound(p.value, 10)]

\* ensemble_point with the two weights exchanged.
ensemble_point_swapped(a, p) ==
    [date |-> a.date,
     value |-> 10 * PyRound(6 * a.value + 4 * p.value, 100),
     lower_bound |-> 10 * PyRound(PyMax0(Min(a.lower_bound, p.lower_bound)), 10),
     upper_bound |-> 10 * PyRound(Max(a.upper_bound, p.upper_bound), 10),
     arima_value |-> 10 * PyRound(a.value, 10),
     prophet_value |-> 10 * PyRound(p.value, 10)]

\* One step of the ensemble from the two producers' steps a and p.
ensemble_point(a, p) ==
    [date |-> a.date,
     value |-> 10 * PyRound(4 * a.value + 6 * p.value, 100),
     lower_bound |-> 10 * PyRound(PyMax0(Min(a.lower_bound, p.lower_bound)), 10),
     upper_bound |-> 10 * PyRound(Max(a.upper_bound, p.upper_bound), 10),
     arima_value |-> 10 * PyRound(a.value, 10),
     prophet_value |-> 10 * PyRound(p.value, 10)]

forecast_ensemble(series, periods, arima_outcome, prophet_outcome) ==
    IF series = <<>> \/ Len(series) < MinObservations
    THEN simple_forecast(series, periods)
    ELSE LET arima_forecast == forecast_arima(series, periods, arima_outcome)
             prophet_forecast == forecast_prophet(series, periods, prophet_outcome)
         IN  IF arima_forecast.model = "Raised" THEN arima_forecast
             ELSE IF prophet_forecast.model = "Raised"
             THEN Raised(arima_forecast.lib_calls \cup prophet_forecast.lib_calls)
             ELSE
             [model |-> "Ensemble",
              forecasts |-> [i \in 1..periods |->
                  ensemble_point(arima_forecast.forecasts[i],
                                 prophet_forecast.forecasts[i])],
              model_params |-> [arima_weight |-> 4, prophet_weight |-> 6],
              lib_calls |-> arima_forecast.lib_calls \cup prophet_forecast.lib_calls]

\* The trend label of Forecaster.forecast_category.
trend_label(series) ==
    IF Len(series) >= 2
    THEN IF series[Len(series)].sales_count > series[1].sales_count
         THEN "UP" ELSE "DOWN"
    ELSE "STABLE"

select_model(series, days_ahead, model, arima_outcome, prophet_outcome) ==
    IF model = "arima" THEN forecast_arima(series, days_ahead, arima_outcome)
    ELSE IF model = "prophet" THEN forecast_prophet(series, days_ahead, prophet_outcome)
    ELSE IF model = "ensemble"
    THEN forecast_ensemble(series, days_ahead, arima_outcome, prophet_outcome)
    ELSE simple_forecast(series, days_ahead)

\* forecast_category from the prepared series on: the empty-data return,
\* the model selection and the metadata.
forecast_prepared(series, category, days_ahead, model, arima_outcome, prophet_outcome) ==
    IF series = <<>> THEN simple_forecast(series, days_ahead)
    ELSE LET res == select_model(series, days_ahead, model,
                                 arima_outcome, prophet_outcome)
         IN  IF res.model = "Raised" THEN res
             ELSE res @@ [category |-> category,
                          forecast_date |-> now,
                          historical_data_points |-> Len(series),
                          trend |-> trend_label(series)]

forecast_category(category, days_ahead, model, arima_outcome, prophet_outcome) ==
    forecast_prepared(prepare_time_series_data(category, LookbackDays),
                      category, days_ahead, model, arima_outcome, prophet_outcome)

\* The dictionary handed to the caller: the producer's result without the
\* bookkeeping of the library calls.
Returned(res) == [f \in DOMAIN res \ {"lib_calls"} |-> res[f]]

-----------------------------------------------------------------------------
(* State machine of the forecasting engine *)

NoRequest == [op |-> "none"]
NoForecast == [model |-> "None", forecasts |-> <<>>]
NoLib == [arima |-> NotCalled, prophet |-> NotCalled]
NoAgreement == [keyword |-> <<>>]
NoReturn == [of |-> "none"]

\* No retry_with_backoff call in progress.
NoRetry == [pc |-> "idle"]

\* The request threads of the server, and a thread that serves no call.
Threads == {1, 2}
Idle == [pc |-> "idle"]

InitForecast ==
    /\ now = 0
    /\ sales = {}
    /\ ARIMA_AVAILABLE \in BOOLEAN
    /\ PROPHET_AVAILABLE \in BOOLEAN
    /\ request = NoRequest
    /\ data = <<>>
    /\ lib = NoLib
    /\ forecast = NoForecast
    /\ articles = {}
    /\ tweets = {}
    /\ google_trends = {}
    /\ detected = <<>>
    /\ agreement = NoAgreement
    /\ warnings = <<>>
    /\ returned = NoReturn
    /\ reddit_posts = {}
    /\ models = <<>>
    /\ forecast_cache = <<>>
    /\ threads = [t \in Threads |-> Idle]
    /\ retry = NoRetry

\* DatabaseManager.insert_ecommerce_sales of one record: a record that repeats
\* (category, date, region) of a stored one is skipped (IntegrityError).
InsertSale(category, date, region, count) ==
    /\ request = NoRequest
    /\ Cardinality(sales) < MaxSales
    /\ ~\E r \in sales : r.category = category /\ r.date = date /\ r.region = region
    /\ sales' = sales \cup {[category |-> category, date |-> date,
                             region |-> region, sales_count |-> count]}
    /\ UNCHANGED <<now, ARIMA_AVAILABLE, PROPHET_AVAILABLE, request, data, lib, forecast>>
    /\ UNCHANGED trendVars
    /\ UNCHANGED otherVars

\* Forecaster.forecast_category(category, days_ahead, model).
ForecastCategory(category, days_ahead, model, arima_outcome, prophet_outcome) ==
    LET res == forecast_category(category, days_ahead, model,
                                 arima_outcome, prophet_outcome)
    IN  /\ request = NoRequest
        /\ request' = [op |-> "forecast_category", category |-> category,
                       days_ahead |-> days_ahead, model |-> model]
        /\ data' = prepare_time_series_data(category, LookbackDays)
        /\ lib' = [arima |-> IF "ARIMA" \in res.lib_calls
                             THEN arima_outcome ELSE NotCalled,
                   prophet |-> IF "Prophet" \in res.lib_calls
                               THEN prophet_outcome ELSE NotCalled]
        /\ forecast' = Returned(res)
        /\ UNCHANGED <<now, sales, ARIMA_AVAILABLE, PROPHET_AVAILABLE>>
        /\ UNCHANGED trendVars
        /\ UNCHANGED otherVars

\* The caller takes the result: results are values of one call and are not
\* kept by the engine.
Return ==
    /\ request # NoRequest
    /\ request' = NoRequest
    /\ data' = <<>>
    /\ lib' = NoLib
    /\ forecast' = NoForecast
    /\ detected' = <<>>
    /\ agreement' = NoAgreement
    /\ warnings' = <<>>
    /\ returned' = NoReturn
    /\ UNCHANGED <<now, sales, ARIMA_AVAILABLE, PROPHET_AVAILABLE,
                   articles, tweets, google_trends>>
    /\ UNCHANGED otherVars

NextForecast ==
    \/ \E age \in SaleAges, c \in SaleCounts :
            InsertSale("phones", now - 24 * age, "India", c)
    \/ \E category \in Categories, days_ahead \in 1..MaxDaysAhead,
          arima_outcome \in LibOutcomes :
            ForecastCategory(category, days_ahead, "arima", arima_outcome, NotCalled)
    \/ \E category \in Categories, days_ahead \in 1..MaxDaysAhead,
          prophet_outcome \in LibOutcomes :
            ForecastCategory(category, days_ahead, "prophet", NotCalled, prophet_outcome)
    \/ \E category \in Categories, days_ahead \in 1..MaxDaysAhead,
          arima_outcome \in LibOutcomes, prophet_outcome \in LibOutcomes :
            ForecastCategory(category, days_ahead, "ensemble",
                             arima_outcome, prophet_outcome)
    \/ \E category \in Categories, days_ahead \in 1..MaxDaysAhead :
            ForecastCategory(category, days_ahead, "simple", NotCalled, NotCalled)
    \/ Return

SpecForecast == InitForecast /\ [][NextForecast]_vars

-----------------------------------------------------------------------------
(* Claims about the forecasting engine *)

Served == request.op = "forecast_category"

\* The two producers' results for the series and horizon of the call served.
ArimaProduced == forecast_arima(data, request.days_ahead, lib.arima)
ProphetProduced == forecast_prophet(data, request.days_ahead, lib.prophet)
NaiveProduced == simple_forecast(data, request.days_ahead)

\* C1: every result of forecast_category has exactly days_ahead points, each
\* with value >= 0, lower_bound >= 0 and upper_bound >= lower_bound.
C1_ForecastContract ==
    Served =>
        /\ Len(forecast.forecasts) = request.days_ahead
        /\ \A i \in 1..Len(forecast.forecasts) :
              /\ PyGe(forecast.forecasts[i].value, 0)
              /\ PyGe(forecast.forecasts[i].lower_bound, 0)
              /\ PyGe(forecast.forecasts[i].upper_bound,
                      forecast.forecasts[i].lower_bound)

\* C2: with fewer than 7 observations (0 included) forecast_category does not
\* raise, returns the naive producer's output for every model choice and fits
\* no library model.
C2_ShortSeriesNaive ==
    (Served /\ Len(data) < 7) =>
        /\ forecast.model = "Simple"
        /\ forecast.forecasts = NaiveProduced.forecasts
        /\ lib = NoLib

C2_Witness ==
    /\ Served
    /\ request.model = "ensemble"
    /\ Len(data) = 6
    /\ ARIMA_AVAILABLE
    /\ PROPHET_AVAILABLE
    /\ forecast.model = "Simple"

ArimaFailed == ~ARIMA_AVAILABLE \/ lib.arima.status = "throws"
ProphetFailed == ~PROPHET_AVAILABLE \/ lib.prophet.status = "throws"

\* C3: with at least 7 observations no error reaches the caller; a producer
\* that is unavailable or throws is replaced by the naive producer's output
\* for the same series and horizon, and the ensemble is then built from that
\* substitute and the other producer.
C3_FallbackLadder ==
    (Served /\ Len(data) >= 7) =>
        /\ forecast.model # "Raised"
        /\ (request.model = "arima" /\ ArimaFailed) =>
              /\ forecast.model = "Simple"
              /\ forecast.forecasts = NaiveProduced.forecasts
        /\ (request.model = "prophet" /\ ProphetFailed) =>
              /\ forecast.model = "Simple"
              /\ forecast.forecasts = NaiveProduced.forecasts
        /\ request.model = "ensemble" =>
              /\ forecast.model = "Ensemble"
              /\ Len(forecast.forecasts) = request.days_ahead
              /\ \A i \in 1..Len(forecast.forecasts) :
                    LET a == IF ArimaFailed THEN NaiveProduced.forecasts[i]
                             ELSE fitted_forecasts(data, request.days_ahead,
                                                   lib.arima.point)[i]
                        p == IF ProphetFailed THEN NaiveProduced.forecasts[i]
                             ELSE fitted_forecasts(data, request.days_ahead,
                                                   lib.prophet.point)[i]
                    IN  /\ forecast.forecasts[i].arima_value = 10 * PyRound(a.value, 10)
                        /\ forecast.forecasts[i].prophet_value = 10 * PyRound(p.value, 10)

C3_Witness ==
    /\ Served
    /\ request.model = "ensemble"
    /\ Len(data) >= 7
    /\ lib.arima.status = "throws"
    /\ lib.prophet.status = "ok"
    /\ forecast.model = "Ensemble"

\* C4 as claimed: each ensemble value is exactly 0.4 * the autoregressive
\* value + 0.6 * the regression value, nothing else done to it.
C4_EnsembleExact ==
    (Served /\ forecast.model = "Ensemble") =>
        \A i \in 1..Len(forecast.forecasts) :
            10 * forecast.forecasts[i].value =
                4 * ArimaProduced.forecasts[i].value
                + 6 * ProphetProduced.forecasts[i].value

\* C4 as amended: each ensemble value is 0.4 * the autoregressive value +
\* 0.6 * the regression value rounded to the nearest whole number (ties to
\* the even one).
C4_EnsembleRounded ==
    (Served /\ forecast.model = "Ensemble") =>
        \A i \in 1..Len(forecast.forecasts) :
            forecast.forecasts[i].value =
                10 * PyRound(4 * ArimaProduced.forecasts[i].value
                             + 6 * ProphetProduced.forecasts[i].value, 100)

C4_Witness ==
    /\ Served
    /\ forecast.model = "Ensemble"
    /\ lib.arima.status = "ok"
    /\ lib.prophet.status = "ok"
    /\ \E i \in 1..Len(forecast.forecasts) :
          (4 * ArimaProduced.forecasts[i].value
           + 6 * ProphetProduced.forecasts[i].value) % 100 # 0

\* C5: every result of forecast_category carries category,
\* historical_data_points (the length of the prepared series) and trend, also
\* for a category without sales records in the lookback window.
C5_Metadata ==
    Served =>
        /\ {"category", "historical_data_points", "trend"} \subseteq DOMAIN forecast
        /\ forecast.category = request.category
        /\ forecast.historical_data_points = Len(data)

\* C6: the trend label is UP when the last observation of the prepared series
\* is greater than the first, DOWN when it is less, STABLE when they are equal
\* or the series has fewer than 2 observations.
C6_TrendLabel ==
    (Served /\ "trend" \in DOMAIN forecast) =>
        forecast.trend =
            IF Len(data) < 2 THEN "STABLE"
            ELSE IF data[Len(data)].sales_count > data[1].sales_count THEN "UP"
            ELSE IF data[Len(data)].sales_count < data[1].sales_count THEN "DOWN"
            ELSE "STABLE"

-----------------------------------------------------------------------------
(* Text: a string is a sequence of one-character strings *)

UpperCase == <<"A", "B", "C", "D", "E", "F", "G", "H", "I", "J", "K", "L", "M", "N", "O", "P", "Q", "R", "S", "T", "U", "V", "W", "X", "Y", "Z">>
LowerCase == <<"a", "b", "c", "d", "e", "f", "g", "h", "i", "j", "k", "l", "m", "n", "o", "p", "q", "r", "s", "t", "u", "v", "w", "x", "y", "z">>

\* str.lower() and SQL LOWER() on ASCII text.
LowerOf == [c \in {UpperCase[i] : i \in 1..Len(UpperCase)} |->
                LowerCase[CHOOSE i \in 1..Len(UpperCase) : UpperCase[i] = c]]
LowerChar(c) == IF c \in DOMAIN LowerOf THEN LowerOf[c] ELSE c
Lower(text) == [i \in 1..Len(text) |-> LowerChar(text[i])]

\* pat in text, and text LIKE '%pat%' for a pattern without wildcards.
Contains(text, pat) ==
    \E i \in 0..(Len(text) - Len(pat)) : SubSeq(text, i + 1, i + Len(pat)) = pat

-----------------------------------------------------------------------------
(* Trend detection engine: the signal store *)

tracked_keywords == <<
    <<"i", "P", "h", "o", "n", "e">>,
    <<"O", "n", "e", "P", "l", "u", "s">>,
    <<"S", "a", "m", "s", "u", "n", "g">>,
    <<"X", "i", "a", "o", "m", "i">>,
    <<"R", "e", "a", "l", "m", "e">>,
    <<"A", "m", "a", "z", "o", "n">>,
    <<"F", "l", "i", "p", "k", "a", "r", "t">>,
    <<"l", "a", "p", "t", "o", "p">>,
    <<"p", "h", "o", "n", "e">>,
    <<"s", "m", "a", "r", "t", "p", "h", "o", "n", "e">>,
    <<"g", "a", "d", "g", "e", "t">>,
    <<"f", "a", "s", "h", "i", "o", "n">>,
    <<"e", "c", "o", "m", "m", "e", "r", "c", "e">>,
    <<"s", "a", "l", "e">>,
    <<"d", "i", "s", "c", "o", "u", "n", "t">>
    >>

\* The keywords the callers of check_cross_source_agreement ask about.
OnePlus == tracked_keywords[2]
iPhone == tracked_keywords[1]

\* The rows offered to the three tables.  An article is (title, content,
\* sentiment_score, fetched_date): the score is in hundredths, <<s>> when the
\* article is scored and <<>> when the column is NULL; the age is in hours.
\* A row's id is its position: rows are inserted in this order, so a table
\* read without ORDER BY yields them by id.
Article(id, title, content, score, age) ==
    [id |-> id, title |-> title, content |-> content,
     sentiment_score |-> score, fetched_date |-> now - age]
Tweet(id, text, age) == [id |-> id, text |-> text, fetched_date |-> now - age]
GoogleTrend(id, keyword, volume, age) ==
    [id |-> id, keyword |-> keyword, search_volume |-> volume,
     fetched_date |-> now - age]

ArticleCandidates == <<
    Article(1, <<"O", "n", "e", "P", "l", "u", "s">>, <<"n", "e", "w", "s">>, <<1>>, 36),
    Article(2, <<"O", "n", "e", "P", "l", "u", "s">>, <<"s", "a", "l", "e">>, <<100>>, 12),
    Article(3, <<"o", "n", "e", "p", "l", "u", "s", " ", "d", "e", "a", "l">>, <<"i", "P", "h", "o", "n", "e">>, <<100>>, 6),
    Article(4, <<"O", "n", "e", "P", "l", "u", "s">>, <<"n", "e", "w", "s">>, <<>>, 3),
    Article(5, <<"i", "P", "h", "o", "n", "e", " ", "s", "a", "l", "e">>, <<"n", "e", "w", "s">>, <<-50>>, 30)
    >>
TweetCandidates == <<
    Tweet(1, <<"N", "e", "w", " ", "O", "n", "e", "P", "l", "u", "s", " ", "p", "h", "o", "n", "e">>, 12),
    Tweet(2, <<"o", "n", "e", "p", "l", "u", "s", " ", "d", "e", "a", "l">>, 36),
    Tweet(3, <<"i", "P", "h", "o", "n", "e", " ", "s", "a", "l", "e">>, 12)
    >>
TrendCandidates == <<
    GoogleTrend(1, <<"O", "n", "e", "P", "l", "u", "s">>, 87, 12),
    GoogleTrend(2, <<"o", "n", "e", "p", "l", "u", "s">>, 50, 12),
    GoogleTrend(3, <<"i", "P", "h", "o", "n", "e">>, 5, 12),
    GoogleTrend(4, <<"S", "a", "m", "s", "u", "n", "g">>, 30, 36)
    >>

-----------------------------------------------------------------------------
(* Trend detection engine: the keyword aggregator *)

RECURSIVE SetSum(_)
SetSum(S) == IF S = {} THEN 0
             ELSE LET x == CHOOSE y \in S : TRUE IN x[2] + SetSum(S \ {x})

\* The rows of a table with fetched_date >= cutoff_time.
Since(rows, hours) == {r \in rows : r.fetched_date >= now - hours}

\* The three loops of _extract_keywords: for every tracked keyword, the ids
\* of the scored articles whose lower-cased "title content" holds the
\* lower-cased keyword, of the tweets whose lower-cased text does, and of the
\* search-volume samples whose keyword field is the tracked keyword itself
\* (keyword in tracked_keywords).
keyword_hits(window_hours) ==
    LET texts == {<<a.id, Lower(a.title \o <<" ">> \o a.content)>> :
                    a \in {x \in Since(articles, window_hours) :
                                x.sentiment_score # <<>>}}
        posts == {<<t.id, Lower(t.text)>> : t \in Since(tweets, window_hours)}
        samples == Since(google_trends, window_hours)
    IN  [k \in 1..Len(tracked_keywords) |->
            LET keyword == Lower(tracked_keywords[k])
            IN  [news |-> {x[1] : x \in {y \in texts : Contains(y[2], keyword)}},
                 twitter |-> {x[1] : x \in {y \in posts : Contains(y[2], keyword)}},
                 google_trends |-> {g.id : g \in {x \in samples :
                                        x.keyword = tracked_keywords[k]}}]]

\* The entry of the defaultdict for a keyword the loops have touched.
keyword_entry(keyword, hit) ==
    [keyword |-> keyword,
     mentions |-> Cardinality(hit.news) + Cardinality(hit.twitter)
                  + SetSum({<<g.id, g.search_volume \div 10>> :
                              g \in {x \in google_trends : x.id \in hit.google_trends}}),
     source_list |-> {s \in DOMAIN hit : hit[s] # {}},
     sentiments |-> <<SetSum({<<a.id, a.sentiment_score[1]>> :
                                a \in {x \in articles : x.id \in hit.news}}),
                      Cardinality(hit.news)>>]

\* When the loops first touch tracked keyword number k: the articles come
\* first, then the tweets, then the samples; inside a loop the rows come by
\* id and, for one row, the keywords in the order of tracked_keywords.
first_touch(k, hit) ==
    IF hit.news # {} THEN <<1, SetMin(hit.news), k>>
    ELSE IF hit.twitter # {} THEN <<2, SetMin(hit.twitter), k>>
    ELSE IF hit.google_trends # {} THEN <<3, SetMin(hit.google_trends), k>>
    ELSE <<4, 0, k>>

Before(x, y) ==
    \/ x[1] < y[1]
    \/ x[1] = y[1] /\ x[2] < y[2]
    \/ x[1] = y[1] /\ x[2] = y[2] /\ x[3] < y[3]

\* The keys of the defaultdict in insertion order.
RECURSIVE InTouchOrder(_)
InTouchOrder(touches) ==
    IF touches = {} THEN <<>>
    ELSE LET t == CHOOSE x \in touches : \A y \in touches \ {x} : Before(x, y)
         IN  <<t[3]>> \o InTouchOrder(touches \ {t})

keyword_stats(window_hours) ==
    LET hits == keyword_hits(window_hours)
        touches == {first_touch(k, hits[k]) : k \in 1..Len(tracked_keywords)}
        order == InTouchOrder({t \in touches : t[1] < 4})
    IN  [i \in 1..Len(order) |->
            keyword_entry(tracked_keywords[order[i]], hits[order[i]])]

\* The variant of _extract_keywords that keeps the entries without mentions.
extract_keywords_keepzero(window_hours) ==
    LET kept == keyword_stats(window_hours)
    IN  [i \in 1..Len(kept) |->
            [keyword |-> kept[i].keyword,
             mentions |-> kept[i].mentions,
             sources |-> Cardinality(kept[i].source_list),
             source_list |-> kept[i].source_list,
             avg_sentiment |-> IF kept[i].sentiments[2] > 0
                               THEN kept[i].sentiments ELSE <<0, 1>>]]

\* TrendDetector._extract_keywords: the entries with mentions > 0, with the
\* number of sources and the mean sentiment (a fraction of hundredths).
extract_keywords(window_hours) ==
    LET HasMentions(d) == d.mentions > 0
        kept == SelectSeq(keyword_stats(window_hours), HasMentions)
    IN  [i \in 1..Len(kept) |->
            [keyword |-> kept[i].keyword,
             mentions |-> kept[i].mentions,
             sources |-> Cardinality(kept[i].source_list),
             source_list |-> kept[i].source_list,
             avg_sentiment |-> IF kept[i].sentiments[2] > 0
                               THEN kept[i].sentiments ELSE <<0, 1>>]]

-----------------------------------------------------------------------------
(* Trend detection engine: velocity, growth and strength *)

\* An article matches a keyword in the SQL queries when
\* LOWER(title) LIKE %keyword% OR LOWER(content) LIKE %keyword%.
Like(a, keyword) ==
    LET pattern == Lower(keyword)
    IN  \/ Contains(Lower(a.title), pattern)
        \/ Contains(Lower(a.content), pattern)

\* cutoff_time = now - timedelta(hours=window_hours) and
\* midpoint = now - timedelta(hours=window_hours // 2)
cutoff_time(window_hours) == now - window_hours
midpoint(window_hours) == now - window_hours \div 2

\* The recent half (fetched_date >= midpoint) and the older half
\* (cutoff_time <= fetched_date < midpoint) of the window.
RecentHalf(keyword, window_hours) ==
    {a \in articles : Like(a, keyword)
                      /\ a.fetched_date >= midpoint(window_hours)}
OlderHalf(keyword, window_hours) ==
    {a \in articles : Like(a, keyword)
                      /\ a.fetched_date >= cutoff_time(window_hours)
                      /\ a.fetched_date < midpoint(window_hours)}
Scored(rows) == {a \in rows : a.sentiment_score # <<>>}
ScoreSum(rows) == SetSum({<<a.id, a.sentiment_score[1]>> : a \in rows})

\* The variant of get_trend_velocity that takes the difference the other
\* way round.
get_trend_velocity_swapped(keyword, window_hours) ==
    LET recent == Scored(RecentHalf(keyword, window_hours))
        older == Scored(OlderHalf(keyword, window_hours))
        Sr == ScoreSum(recent)
        nr == Cardinality(recent)
        So == ScoreSum(older)
        no == Cardinality(older)
    IN  IF So = 0
        THEN (IF Sr > 0 THEN <<1, 1>> ELSE IF Sr < 0 THEN <<-1, 1>> ELSE <<0, 1>>)
        ELSE IF nr = 0 THEN <<So, Abs(So)>>
        ELSE <<So * nr - Sr * no, nr * Abs(So)>>

\* TrendDetector.get_trend_velocity, as a fraction <<numerator, denominator>>
\* with a positive denominator.  AVG over no row is NULL, and a NULL or zero
\* average counts as 0.0.
get_trend_velocity(keyword, window_hours) ==
    LET recent == Scored(RecentHalf(keyword, window_hours))
        older == Scored(OlderHalf(keyword, window_hours))
        Sr == ScoreSum(recent)
        nr == Cardinality(recent)
        So == ScoreSum(older)
        no == Cardinality(older)
    IN  IF So = 0
        THEN (IF Sr > 0 THEN <<1, 1>> ELSE IF Sr < 0 THEN <<-1, 1>> ELSE <<0, 1>>)
        ELSE IF nr = 0 THEN <<-So, Abs(So)>>
        ELSE <<Sr * no - So * nr, nr * Abs(So)>>

\* The variant of get_growth_rate that counts the scored articles only.
get_growth_rate_scored(keyword, window_hours) ==
    LET recent_count == Cardinality(Scored(RecentHalf(keyword, window_hours)))
        older_count == Cardinality(Scored(OlderHalf(keyword, window_hours)))
    IN  IF older_count = 0
        THEN (IF recent_count > 0 THEN <<100, 1>> ELSE <<0, 1>>)
        ELSE <<100 * (recent_count - older_count), older_count>>

\* TrendDetector.get_growth_rate, in percent, as a fraction.
get_growth_rate(keyword, window_hours) ==
    LET recent_count == Cardinality(RecentHalf(keyword, window_hours))
        older_count == Cardinality(OlderHalf(keyword, window_hours))
    IN  IF older_count = 0
        THEN (IF recent_count > 0 THEN <<100, 1>> ELSE <<0, 1>>)
        ELSE <<100 * (recent_count - older_count), older_count>>

\* floor(n/d * 10^k) by long division.
RECURSIVE LongDiv(_, _, _, _)
LongDiv(q, r, d, k) ==
    IF k = 0 THEN q
    ELSE LongDiv(10 * q + (10 * r) \div d, (10 * r) % d, d, k - 1)
ScaleDiv(n, d, k) == LongDiv(n \div d, n % d, d, k)

\* floor(sqrt(n)) for lo*lo <= n < (hi+1)*(hi+1).
RECURSIVE ISqrtIn(_, _, _)
ISqrtIn(n, lo, hi) ==
    IF lo = hi THEN lo
    ELSE LET mid == (lo + hi + 1) \div 2
         IN  IF mid * mid <= n THEN ISqrtIn(n, mid, hi)
             ELSE ISqrtIn(n, lo, mid - 1)
ISqrt(n) == ISqrtIn(n, 0, 46340)

\* math.log(n) / math.log(100) in millionths, for n = 1..100.
Log100Table == <<
    0, 150515, 238561, 301030, 349485, 389076, 422549, 451545,
    477121, 500000, 520696, 539591, 556972, 573064, 588046, 602060,
    615224, 627636, 639377, 650515, 661110, 671211, 680864, 690106,
    698970, 707487, 715682, 723579, 731199, 738561, 745681, 752575,
    759257, 765739, 772034, 778151, 784101, 789892, 795532, 801030,
    806392, 811625, 816734, 821726, 826606, 831379, 836049, 840621,
    845098, 849485, 853785, 858002, 862138, 866197, 870181, 874094,
    877937, 881714, 885426, 889076, 892665, 896196, 899670, 903090,
    906457, 909772, 913037, 916254, 919425, 922549, 925629, 928666,
    931661, 934616, 937531, 940407, 943245, 946047, 948814, 951545,
    954243, 956907, 959539, 962140, 964709, 967249, 969760, 972241,
    974695, 977121, 979521, 981894, 984241, 986564, 988862, 991136,
    993386, 995613, 997818, 1000000
    >>
\* Beyond the table the value is only needed up to the cap 1.5 of
\* mention_factor, reached at n = 1000; in between it is taken from n div 10.
Log100(n) ==
    IF n <= 100 THEN Log100Table[n]
    ELSE IF n >= 1000 THEN 1500000
    ELSE 500000 + Log100Table[n \div 10]

\* sqrt(N) in thousandths: floor(sqrt(N)) and the first-order remainder.
RefinedSqrt(N) ==
    LET r == ISqrt(N)
    IN  IF r = 0 THEN 0 ELSE 1000 * r + ((N - r * r) * 1000) \div (2 * r)

\* sqrt(xn/xd) in units of 0.0000001.  A square root of 20 or more already
\* gives the cap 100 of the strength for every mention_count >= 1.
Root(xn, xd) ==
    IF xn \div xd >= 400 THEN 200000000
    ELSE IF xn \div xd < 20 THEN RefinedSqrt(ScaleDiv(xn, xd, 8))
    ELSE 10 * RefinedSqrt(ScaleDiv(xn, xd, 6))

\* The variant of growth_factor without the cap 2.0.
growth_factor_uncapped(growth_rate) ==
    <<Abs(growth_rate[1]), 100 * growth_rate[2]>>

\* min(abs(growth_rate) / 100, 2.0), as a fraction.
growth_factor(growth_rate) ==
    IF Abs(growth_rate[1]) >= 200 * growth_rate[2]
    THEN <<2, 1>>
    ELSE <<Abs(growth_rate[1]), 100 * growth_rate[2]>>

\* min(cross_source_count / 3, 1.5), as a fraction.
cross_source_weight(cross_source_count) ==
    IF 2 * cross_source_count >= 9 THEN <<3, 2>> ELSE <<cross_source_count, 3>>

\* min(math.log(mention_count + 1) / math.log(100), 1.5), in millionths.
mention_factor(mention_count) == Min(Log100(mention_count + 1), 1500000)

\* base_strength * 50 in millionths: the product root * factor * 50 is taken
\* limb by limb to stay inside the machine integers.
base_strength50(velocity, growth, weight, factor) ==
    LET root == Root(Abs(velocity[1]) * growth[1] * weight[1],
                     velocity[2] * growth[2] * weight[2])
        Rh == root \div 10000
        Rl == root % 10000
        Mh == factor \div 1000
        Ml == factor % 1000
    IN  50 * Rh * Mh + (Rh * Ml) \div 20 + (Rl * Mh) \div 200
        + (Rl * Ml) \div 200000

\* The variant of score_trend without the cap 100.
score_trend_uncapped(velocity, growth_rate, cross_source_count, mention_count) ==
    base_strength50(velocity, growth_factor(growth_rate),
                    cross_source_weight(cross_source_count),
                    mention_factor(mention_count))

\* TrendDetector.score_trend on fractions velocity and growth_rate: the
\* strength in millionths.
score_trend(velocity, growth_rate, cross_source_count, mention_count) ==
    Min(base_strength50(velocity, growth_factor(growth_rate),
                        cross_source_weight(cross_source_count),
                        mention_factor(mention_count)),
        100000000)

\* The variant of _classify_trend whose buckets include their lower limit.
classify_trend_inclusive(strength, velocity) ==
    IF strength >= 70000000
    THEN (IF velocity[1] > 0 THEN "STRONG EMERGING TREND (POSITIVE)"
          ELSE "STRONG EMERGING TREND (NEGATIVE)")
    ELSE IF strength >= 50000000
    THEN (IF velocity[1] > 0 THEN "MODERATE TREND (POSITIVE)"
          ELSE "MODERATE TREND (NEGATIVE)")
    ELSE IF strength >= 30000000 THEN "WEAK TREND"
    ELSE "STABLE / NO TREND"

\* TrendDetector._classify_trend on the unrounded strength and velocity.
classify_trend(strength, velocity) ==
    IF strength > 70000000
    THEN (IF velocity[1] > 0 THEN "STRONG EMERGING TREND (POSITIVE)"
          ELSE "STRONG EMERGING TREND (NEGATIVE)")
    ELSE IF strength > 50000000
    THEN (IF velocity[1] > 0 THEN "MODERATE TREND (POSITIVE)"
          ELSE "MODERATE TREND (NEGATIVE)")
    ELSE IF strength > 30000000 THEN "WEAK TREND"
    ELSE "STABLE / NO TREND"

\* The trend record of one keyword: strength in hundredths (round(x, 2)),
\* velocity and avg_sentiment in thousandths (round(x, 3)), growth_rate in
\* tenths of a percent (round(x, 1)).
trend_record(d, window_hours) ==
    LET velocity == get_trend_velocity(d.keyword, window_hours)
        growth_rate == get_growth_rate(d.keyword, window_hours)
        strength == score_trend(velocity, growth_rate, d.sources, d.mentions)
    IN  [keyword |-> d.keyword,
         strength |-> PyRound(strength, 10000),
         velocity |-> PyRound(1000 * velocity[1], velocity[2]),
         growth_rate |-> PyRound(10 * growth_rate[1], growth_rate[2]),
         sources |-> d.source_list,
         mention_count |-> d.mentions,
         avg_sentiment |-> PyRound(10 * d.avg_sentiment[1], d.avg_sentiment[2]),
         signal |-> classify_trend(strength, velocity)]

\* list.sort(key=strength, reverse=True): stable, so records of equal
\* strength keep their order.
RECURSIVE SortByStrength(_)
SortByStrength(s) ==
    IF s = <<>> THEN <<>>
    ELSE LET i == CHOOSE j \in 1..Len(s) :
                    /\ \A k \in 1..Len(s) : s[k].strength <= s[j].strength
                    /\ \A k \in 1..(j - 1) : s[k].strength < s[j].strength
         IN  <<s[i]>> \o SortByStrength(SubSeq(s, 1, i - 1) \o SubSeq(s, i + 1, Len(s)))

\* The variant of detect_trends that sorts the records taken in the reverse
\* of the aggregator's order, so that equal strengths come out last first.
detect_trends_last_first(window_hours) ==
    LET keywords == extract_keywords(window_hours)
        n == Len(keywords)
    IN  SortByStrength([i \in 1..n |->
                            trend_record(keywords[n + 1 - i], window_hours)])

\* TrendDetector.detect_trends(window_hours).
detect_trends(window_hours) ==
    LET keywords == extract_keywords(window_hours)
    IN  SortByStrength([i \in 1..Len(keywords) |->
                            trend_record(keywords[i], window_hours)])

-----------------------------------------------------------------------------
(* Trend detection engine: cross-source agreement and early warnings *)

\* The variant of the confidence label that calls two sources HIGH.
confidence_label_two_high(source_count) ==
    IF source_count >= 2 THEN "HIGH" ELSE "LOW"

\* 'HIGH' if source_count >= 3 else 'MEDIUM' if source_count == 2 else 'LOW'
confidence_label(source_count) ==
    IF source_count >= 3 THEN "HIGH"
    ELSE IF source_count = 2 THEN "MEDIUM" ELSE "LOW"

\* The variant of the agreement check that is content with one source.
check_cross_source_agreement_one(keyword, hours) ==
    LET sources ==
            [news |-> Cardinality({a \in Since(articles, hours) : Like(a, keyword)}),
             twitter |-> Cardinality({t \in Since(tweets, hours) :
                                        Contains(Lower(t.text), Lower(keyword))}),
             google_trends |-> Cardinality({g \in Since(google_trends, hours) :
                                        Lower(g.keyword) = Lower(keyword)})]
        source_count == Cardinality({s \in DOMAIN sources : sources[s] > 0})
    IN  [keyword |-> keyword,
         agreement |-> source_count >= 1,
         source_count |-> source_count,
         sources |-> sources,
         confidence |-> confidence_label(source_count)]

\* TrendDetector.check_cross_source_agreement(keyword, hours).
check_cross_source_agreement(keyword, hours) ==
    LET sources ==
            [news |-> Cardinality({a \in Since(articles, hours) : Like(a, keyword)}),
             twitter |-> Cardinality({t \in Since(tweets, hours) :
                                        Contains(Lower(t.text), Lower(keyword))}),
             google_trends |-> Cardinality({g \in Since(google_trends, hours) :
                                        Lower(g.keyword) = Lower(keyword)})]
        source_count == Cardinality({s \in DOMAIN sources : sources[s] > 0})
    IN  [keyword |-> keyword,
         agreement |-> source_count >= 2,
         source_count |-> source_count,
         sources |-> sources,
         confidence |-> confidence_label(source_count)]

\* The variant of _generate_recommendation that asks for a velocity above
\* 0.3 instead of an absolute velocity above 0.3 before it says MONITOR.
generate_recommendation_rising(trend) ==
    IF trend.velocity > 500 /\ trend.avg_sentiment > 300 THEN "OPPORTUNITY"
    ELSE IF trend.velocity > 500 /\ trend.avg_sentiment < -300 THEN "RISK"
    ELSE IF trend.velocity < -500 /\ trend.avg_sentiment > 0 THEN "CAUTION"
    ELSE IF trend.velocity > 300 THEN "MONITOR"
    ELSE "WATCH"

\* TrendDetector._generate_recommendation: the kind of the advice, on the
\* rounded velocity and avg_sentiment of the trend record (thousandths).
generate_recommendation(trend) ==
    IF trend.velocity > 500 /\ trend.avg_sentiment > 300 THEN "OPPORTUNITY"
    ELSE IF trend.velocity > 500 /\ trend.avg_sentiment < -300 THEN "RISK"
    ELSE IF trend.velocity < -500 /\ trend.avg_sentiment > 0 THEN "CAUTION"
    ELSE IF Abs(trend.velocity) > 300 THEN "MONITOR"
    ELSE "WATCH"

\* TrendDetector.get_early_warnings(threshold), threshold in hundredths.
get_early_warnings(threshold) ==
    LET trends == detect_trends(48)
        Warns(trend) ==
            /\ trend.strength >= threshold
            /\ Abs(trend.velocity) > 500
            /\ check_cross_source_agreement(trend.keyword, 24).agreement
        alerts == SelectSeq(trends, Warns)
    IN  [i \in 1..Len(alerts) |->
            [keyword |-> alerts[i].keyword,
             alert_level |-> IF alerts[i].strength > 7000 THEN "HIGH" ELSE "MEDIUM",
             strength |-> alerts[i].strength,
             velocity |-> alerts[i].velocity,
             sources |-> alerts[i].sources,
             confidence |-> check_cross_source_agreement(alerts[i].keyword, 24).confidence,
             recommendation |-> generate_recommendation(alerts[i])]]

-----------------------------------------------------------------------------
(* Trend detection engine: the state machine *)

Windows == {24, 48}
Thresholds == {5000, 9000}

\* DatabaseManager.insert_articles / insert_tweets / insert_google_trends of
\* the next offered row; ids grow with the order of insertion.
InsertArticle(i) ==
    /\ request = NoRequest
    /\ i <= MaxArticles
    /\ \A a \in articles : a.id < i
    /\ articles' = articles \cup {ArticleCandidates[i]}
    /\ UNCHANGED <<now, request, tweets, google_trends, detected, agreement, warnings>>
    /\ UNCHANGED <<forecastVars, returned>>
    /\ UNCHANGED otherVars

InsertTweet(i) ==
    /\ request = NoRequest
    /\ i <= MaxTweets
    /\ \A t \in tweets : t.id < i
    /\ tweets' = tweets \cup {TweetCandidates[i]}
    /\ UNCHANGED <<now, request, articles, google_trends, detected, agreement, warnings>>
    /\ UNCHANGED <<forecastVars, returned>>
    /\ UNCHANGED otherVars

InsertGoogleTrend(i) ==
    /\ request = NoRequest
    /\ i <= MaxTrendSamples
    /\ \A g \in google_trends : g.id < i
    /\ google_trends' = google_trends \cup {TrendCandidates[i]}
    /\ UNCHANGED <<now, request, articles, tweets, detected, agreement, warnings>>
    /\ UNCHANGED <<forecastVars, returned>>
    /\ UNCHANGED otherVars

\* The variant of detect_trends that deletes the articles of its window once
\* it has read them.
DetectTrends_consuming(window_hours) ==
    /\ request = NoRequest
    /\ request' = [op |-> "detect_trends", window_hours |-> window_hours]
    /\ detected' = detect_trends(window_hours)
    /\ articles' = articles \ Since(articles, window_hours)
    /\ UNCHANGED <<now, tweets, google_trends, agreement, warnings>>
    /\ UNCHANGED <<forecastVars, returned>>
    /\ UNCHANGED otherVars

DetectTrends(window_hours) ==
    /\ request = NoRequest
    /\ request' = [op |-> "detect_trends", window_hours |-> window_hours]
    /\ detected' = detect_trends(window_hours)
    /\ UNCHANGED <<now, articles, tweets, google_trends, agreement, warnings>>
    /\ UNCHANGED <<forecastVars, returned>>
    /\ UNCHANGED otherVars

CheckCrossSourceAgreement(keyword, hours) ==
    /\ request = NoRequest
    /\ request' = [op |-> "check_cross_source_agreement",
                   keyword |-> keyword, hours |-> hours]
    /\ agreement' = check_cross_source_agreement(keyword, hours)
    /\ UNCHANGED <<now, articles, tweets, google_trends, detected, warnings>>
    /\ UNCHANGED <<forecastVars, returned>>
    /\ UNCHANGED otherVars

GetEarlyWarnings(threshold) ==
    /\ request = NoRequest
    /\ request' = [op |-> "get_early_warnings", threshold |-> threshold]
    /\ detected' = detect_trends(48)
    /\ warnings' = get_early_warnings(threshold)
    /\ UNCHANGED <<now, articles, tweets, google_trends, agreement>>
    /\ UNCHANGED <<forecastVars, returned>>
    /\ UNCHANGED otherVars

GetTrendVelocity(keyword, window_hours) ==
    /\ request = NoRequest
    /\ request' = [op |-> "get_trend_velocity",
                   keyword |-> keyword, window_hours |-> window_hours]
    /\ returned' = [of |-> "get_trend_velocity",
                    velocity |-> get_trend_velocity(keyword, window_hours)]
    /\ UNCHANGED <<now, articles, tweets, google_trends, detected, agreement, warnings>>
    /\ UNCHANGED forecastVars
    /\ UNCHANGED otherVars

GetGrowthRate(keyword, window_hours) ==
    /\ request = NoRequest
    /\ request' = [op |-> "get_growth_rate",
                   keyword |-> keyword, window_hours |-> window_hours]
    /\ returned' = [of |-> "get_growth_rate",
                    growth_rate |-> get_growth_rate(keyword, window_hours)]
    /\ UNCHANGED <<now, articles, tweets, google_trends, detected, agreement, warnings>>
    /\ UNCHANGED forecastVars
    /\ UNCHANGED otherVars

\* The trend detection engine does not read the flags of the forecaster.
InitTrend == InitForecast /\ ARIMA_AVAILABLE /\ PROPHET_AVAILABLE

NextTrend ==
    \/ \E i \in 1..Len(ArticleCandidates) : InsertArticle(i)
    \/ \E i \in 1..Len(TweetCandidates) : InsertTweet(i)
    \/ \E i \in 1..Len(TrendCandidates) : InsertGoogleTrend(i)
    \/ \E window_hours \in Windows : DetectTrends(window_hours)
    \/ \E keyword \in {OnePlus, iPhone} : CheckCrossSourceAgreement(keyword, 24)
    \/ \E threshold \in Thresholds : GetEarlyWarnings(threshold)
    \/ \E keyword \in {OnePlus, iPhone}, window_hours \in Windows :
            GetTrendVelocity(keyword, window_hours)
    \/ \E keyword \in {OnePlus, iPhone}, window_hours \in Windows :
            GetGrowthRate(keyword, window_hours)
    \/ Return

SpecTrend == InitTrend /\ [][NextTrend]_vars

-----------------------------------------------------------------------------
(* Claims about the trend detection engine *)

Detecting == request.op = "detect_trends"
Warning == request.op = "get_early_warnings"

\* The sources with a row of the last `hours` hours that mentions the
\* keyword: an article whose title or content holds it, a tweet whose text
\* holds it, a search-volume sample for it (all ignoring letter case).
Mentioning(keyword, hours) ==
    (IF \E a \in articles : a.fetched_date >= now - hours /\ Like(a, keyword)
     THEN {"news"} ELSE {})
    \cup (IF \E t \in tweets : /\ t.fetched_date >= now - hours
                               /\ Contains(Lower(t.text), Lower(keyword))
          THEN {"twitter"} ELSE {})
    \cup (IF \E g \in google_trends : /\ g.fetched_date >= now - hours
                                      /\ Lower(g.keyword) = Lower(keyword)
          THEN {"google_trends"} ELSE {})

WarnedKeywords == {warnings[i].keyword : i \in 1..Len(warnings)}

\* C7: get_early_warnings(threshold) warns about a keyword only if its
\* detected trend has strength >= threshold and |velocity| > 0.5 and at least
\* 2 sources mention the keyword in the last 24 hours; a trend of strength 90
\* or more with 1 such source gives no warning.
C7_WarningOnlyIf ==
    Warning =>
        /\ \A i \in 1..Len(warnings) : \E j \in 1..Len(detected) :
              /\ detected[j].keyword = warnings[i].keyword
              /\ detected[j].strength >= request.threshold
              /\ Abs(detected[j].velocity) > 500
              /\ Cardinality(Mentioning(warnings[i].keyword, 24)) >= 2
        /\ \A j \in 1..Len(detected) :
              (/\ detected[j].strength >= 9000
               /\ Cardinality(Mentioning(detected[j].keyword, 24)) = 1)
              => detected[j].keyword \notin WarnedKeywords

\* A call whose strongest trend passes the threshold with strength >= 90 and
\* |velocity| > 0.5, with one source only, and that warns about nothing.
C7_Witness ==
    /\ Warning
    /\ warnings = <<>>
    /\ \E j \in 1..Len(detected) :
          /\ detected[j].strength >= 9000
          /\ detected[j].strength >= request.threshold
          /\ Abs(detected[j].velocity) > 500
          /\ Cardinality(Mentioning(detected[j].keyword, 24)) = 1

\* C8: every warning has confidence MEDIUM or HIGH: HIGH exactly when 3
\* sources mention the keyword in the last 24 hours, MEDIUM exactly when 2.
C8_Confidence ==
    Warning =>
        \A i \in 1..Len(warnings) :
            LET n == Cardinality(Mentioning(warnings[i].keyword, 24))
            IN  /\ warnings[i].confidence \in {"MEDIUM", "HIGH"}
                /\ warnings[i].confidence = "HIGH" <=> n = 3
                /\ warnings[i].confidence = "MEDIUM" <=> n = 2

\* A call that returns a warning backed by three sources.
C8_Witness ==
    /\ Warning
    /\ \E i \in 1..Len(warnings) :
          /\ warnings[i].confidence = "HIGH"
          /\ Mentioning(warnings[i].keyword, 24) = {"news", "twitter", "google_trends"}

\* Tracked keyword number k has, in the window, no article and no tweet that
\* holds it, and only search-volume samples of volume below 10.
Unmentioned(k, window_hours) ==
    /\ \A a \in Since(articles, window_hours) :
          ~Contains(Lower(a.title \o <<" ">> \o a.content), Lower(tracked_keywords[k]))
    /\ \A t \in Since(tweets, window_hours) :
          ~Contains(Lower(t.text), Lower(tracked_keywords[k]))
    /\ \A g \in Since(google_trends, window_hours) :
          Lower(g.keyword) = Lower(tracked_keywords[k]) => g.search_volume < 10

\* C9: the aggregator's output holds no keyword with 0 mentions; a tracked
\* keyword without article or tweet match whose samples all have volume
\* below 10 is absent from it, and detect_trends has no record for it.
C9_NoZeroMentions ==
    Detecting =>
        LET keywords == extract_keywords(request.window_hours)
        IN  /\ \A i \in 1..Len(keywords) : keywords[i].mentions > 0
            /\ \A j \in 1..Len(detected) : detected[j].mention_count > 0
            /\ \A k \in 1..Len(tracked_keywords) :
                  Unmentioned(k, request.window_hours) =>
                      /\ \A i \in 1..Len(keywords) :
                            keywords[i].keyword # tracked_keywords[k]
                      /\ \A j \in 1..Len(detected) :
                            detected[j].keyword # tracked_keywords[k]

\* A call in whose window a tracked keyword has a sample of volume below 10
\* and no other mention, while other keywords are detected.
C9_Witness ==
    /\ Detecting
    /\ detected # <<>>
    /\ \E k \in 1..Len(tracked_keywords) :
          /\ Unmentioned(k, request.window_hours)
          /\ \E g \in Since(google_trends, request.window_hours) :
                g.keyword = tracked_keywords[k]

\* The mentions that the samples of the window give tracked keyword number k
\* when their keyword field is compared ignoring letter case.
SampleMentions(k, window_hours) ==
    SetSum({<<g.id, g.search_volume \div 10>> :
              g \in {x \in Since(google_trends, window_hours) :
                        Lower(x.keyword) = Lower(tracked_keywords[k])}})

\* C10: a sample of the window whose keyword equals a tracked keyword
\* ignoring letter case gives it volume // 10 mentions and the search-volume
\* source, and the aggregator and the agreement check count the same samples
\* for a keyword.
C10_CaseInsensitiveSamples ==
    Detecting =>
        \A k \in 1..Len(tracked_keywords) :
            /\ SampleMentions(k, request.window_hours) > 0 =>
                  \E j \in 1..Len(detected) :
                      /\ detected[j].keyword = tracked_keywords[k]
                      /\ "google_trends" \in detected[j].sources
                      /\ detected[j].mention_count
                            >= SampleMentions(k, request.window_hours)
            /\ check_cross_source_agreement(tracked_keywords[k],
                                            request.window_hours).sources.google_trends
                  = Cardinality(keyword_hits(request.window_hours)[k].google_trends)

\* The articles that mention the keyword in the recent half of the window
\* (from the midpoint on) and in its older half (from the cutoff to the
\* midpoint), and the sum of the scores of the scored ones.
RecentArticles(keyword, window_hours) ==
    {a \in articles : /\ Like(a, keyword)
                      /\ a.fetched_date >= now - window_hours \div 2}
OlderArticles(keyword, window_hours) ==
    {a \in articles : /\ Like(a, keyword)
                      /\ a.fetched_date >= now - window_hours
                      /\ a.fetched_date < now - window_hours \div 2}
WithScore(rows) == {a \in rows : Len(a.sentiment_score) = 1}
RECURSIVE TotalScore(_)
TotalScore(rows) ==
    IF rows = {} THEN 0
    ELSE LET a == CHOOSE x \in rows : TRUE
         IN  a.sentiment_score[1] + TotalScore(rows \ {a})

C12_GrowthRate ==
    request.op = "get_growth_rate" =>
        LET recent == Cardinality(RecentArticles(request.keyword, request.window_hours))
            older == Cardinality(OlderArticles(request.keyword, request.window_hours))
            g == returned.growth_rate
        IN  /\ g[2] > 0
            /\ older # 0 => g[1] * older = g[2] * 100 * (recent - older)
            /\ older = 0 => g = IF recent > 0 THEN <<100, 1>> ELSE <<0, 1>>
            /\ g[1] >= -100 * g[2]

\* A call with an unscored article in the recent half, an article in the
\* older half, and tweets and samples for the keyword in the store.
C12_Witness ==
    /\ request.op = "get_growth_rate"
    /\ \E a \in RecentArticles(request.keyword, request.window_hours) :
          a.sentiment_score = <<>>
    /\ OlderArticles(request.keyword, request.window_hours) # {}
    /\ \E t \in tweets : Contains(Lower(t.text), Lower(request.keyword))
    /\ \E g \in google_trends : g.keyword = request.keyword
    /\ returned.growth_rate[1] > 0

-----------------------------------------------------------------------------
(* The scoring functions on their own *)

\* The arguments offered to score_trend and _classify_trend: velocities and
\* growth rates as fractions, mention counts on both sides of the cap of
\* mention_factor, strengths in millionths on both sides of the bucket limits.
Velocities == {<<-3, 2>>, <<0, 1>>, <<1, 4>>, <<1, 1>>, <<4, 1>>, <<99, 1>>}
GrowthRates == {<<-100, 1>>, <<0, 1>>, <<50, 1>>, <<100, 1>>, <<200, 1>>, <<300, 1>>}
MentionCounts == {0, 1, 9, 99, 999, 5000}
Strengths == {0, 30000000, 30000001, 50000000, 50000001, 70000000, 70000001,
              100000000}

ScoreTrend(velocity, growth_rate, cross_source_count, mention_count) ==
    /\ request = NoRequest
    /\ request' = [op |-> "score_trend", velocity |-> velocity,
                   growth_rate |-> growth_rate,
                   cross_source_count |-> cross_source_count,
                   mention_count |-> mention_count]
    /\ returned' = [of |-> "score_trend",
                    strength |-> score_trend(velocity, growth_rate,
                                             cross_source_count, mention_count)]
    /\ UNCHANGED <<now, articles, tweets, google_trends, detected, agreement, warnings>>
    /\ UNCHANGED forecastVars
    /\ UNCHANGED otherVars

ClassifyTrend(strength, velocity) ==
    /\ request = NoRequest
    /\ request' = [op |-> "classify_trend", strength |-> strength,
                   velocity |-> velocity]
    /\ returned' = [of |-> "classify_trend",
                    signal |-> classify_trend(strength, velocity)]
    /\ UNCHANGED <<now, articles, tweets, google_trends, detected, agreement, warnings>>
    /\ UNCHANGED forecastVars
    /\ UNCHANGED otherVars

InitScore == InitTrend

NextScore ==
    \/ \E velocity \in Velocities, growth_rate \in GrowthRates,
          cross_source_count \in 0..MaxSourceCount, mention_count \in MentionCounts :
            ScoreTrend(velocity, growth_rate, cross_source_count, mention_count)
    \/ \E strength \in Strengths, velocity \in Velocities :
            ClassifyTrend(strength, velocity)
    \/ Return

SpecScore == InitScore /\ [][NextScore]_vars

-----------------------------------------------------------------------------
(* Claims about the scoring functions *)

Scoring == request.op = "score_trend"

\* C13: for every velocity, growth rate, source count >= 0 and mention count
\* >= 0 score_trend returns a strength in [0, 100], and so does its rounding
\* to 2 decimals that detect_trends puts in the trend record.
C13_StrengthRange ==
    Scoring =>
        /\ returned.strength >= 0
        /\ returned.strength <= 100000000
        /\ PyRound(returned.strength, 10000) \in 0..10000

\* A call whose every factor is at its cap, where 50 * base_strength is far
\* above 100.
C13_Witness ==
    /\ Scoring
    /\ request.velocity = <<99, 1>>
    /\ request.growth_rate = <<300, 1>>
    /\ request.cross_source_count >= 5
    /\ request.mention_count >= 999
    /\ returned.strength = 100000000

\* Twice min(ln(mention_count + 1) / ln(100), 1.5) where that is a whole
\* number: 0, 1, 2, 3 for mention_count + 1 = 1, 10, 100 and 1000 or more.
TwiceMentionFactor(mention_count) ==
    IF mention_count = 0 THEN 0
    ELSE IF mention_count = 9 THEN 1
    ELSE IF mention_count = 99 THEN 2
    ELSE IF mention_count >= 999 THEN 3
    ELSE -1

\* floor(100 * S * S) for S = 50 * sqrt(|velocity| * min(|growth_rate| / 100, 2)
\* * min(source_count / 3, 1.5)) * f / 2, that is 625 * f * f times the
\* product under the root.
HundredSquares(velocity, growth_rate, source_count, f) ==
    LET gf == IF Abs(growth_rate[1]) >= 200 * growth_rate[2] THEN <<2, 1>>
              ELSE <<Abs(growth_rate[1]), 100 * growth_rate[2]>>
        sw == IF 2 * source_count >= 9 THEN <<3, 2>> ELSE <<source_count, 3>>
    IN  ScaleDiv(625 * f * f * Abs(velocity[1]) * gf[1] * sw[1],
                 velocity[2] * gf[2] * sw[2], 2)

C15_Buckets ==
    request.op = "classify_trend" =>
        LET tag == IF request.velocity[1] > 0 THEN " (POSITIVE)" ELSE " (NEGATIVE)"
            s == request.strength
        IN  /\ s > 70000000 => returned.signal = "STRONG EMERGING TREND" \o tag
            /\ (s > 50000000 /\ s <= 70000000) =>
                  returned.signal = "MODERATE TREND" \o tag
            /\ (s > 30000000 /\ s <= 50000000) => returned.signal = "WEAK TREND"
            /\ s <= 30000000 => returned.signal = "STABLE / NO TREND"

\* The call with strength exactly 70 and a positive velocity, labelled
\* MODERATE.
C15_Witness ==
    /\ request.op = "classify_trend"
    /\ request.strength = 70000000
    /\ request.velocity[1] > 0
    /\ returned.signal = "MODERATE TREND (POSITIVE)"


-----------------------------------------------------------------------------
(* Trend detection engine: the order of the detected trends *)

\* The place of a keyword in the aggregator's result, which lists the
\* keywords in the order in which its loops first met them.
EncounterIndex(keyword, window_hours) ==
    LET keywords == extract_keywords(window_hours)
    IN  CHOOSE i \in 1..Len(keywords) : keywords[i].keyword = keyword

\* C16: the list returned by detect_trends is ordered by strength
\* descending, and two trends of equal strength appear in the order in
\* which the aggregator first encountered their keywords.
C16_SortedStable ==
    Detecting =>
        \A i, j \in 1..Len(detected) :
            i < j =>
                /\ detected[i].strength >= detected[j].strength
                /\ detected[i].strength = detected[j].strength
                       => EncounterIndex(detected[i].keyword, request.window_hours)
                              < EncounterIndex(detected[j].keyword, request.window_hours)

\* detect_trends has returned three trends or more, two of them of equal
\* strength, and the sort has moved a later keyword ahead of an earlier one.
C16_Witness ==
    /\ Detecting
    /\ Len(detected) >= 3
    /\ \E i, j \in 1..Len(detected) :
           i < j /\ detected[i].strength = detected[j].strength
    /\ \E i, j \in 1..Len(detected) :
           /\ i < j
           /\ detected[i].strength > detected[j].strength
           /\ EncounterIndex(detected[i].keyword, request.window_hours)
                  > EncounterIndex(detected[j].keyword, request.window_hours)


-----------------------------------------------------------------------------
(* Forecasting engine: concept drift, and the preparer on records that     *)
(* carry a time of day                                                     *)

\* Series.var() of pandas (ddof = 1) as a fraction: (n * sum(x^2) -
\* sum(x)^2) / (n * (n - 1)).  For fewer than two observations this is
\* 0 / 0, the NaN pandas returns.
var(xs) ==
    LET n == Len(xs)
    IN  <<n * SeqSumSq(xs) - SeqSum(xs) * SeqSum(xs), n * (n - 1)>>

IsNaN(x) == x[2] = 0

\* abs((recent_var - older_var) / older_var), NaN when a variance is NaN.
var_change(recent_var, older_var) ==
    IF IsNaN(recent_var) \/ IsNaN(older_var) THEN <<0, 0>>
    ELSE <<Abs(recent_var[1] * older_var[2] - older_var[1] * recent_var[2]),
           recent_var[2] * older_var[1]>>

\* The variant of the comparison without the test for a zero older
\* variance: a division by zero counts as an unbounded change.
drift_comparison_unguarded(recent_var, older_var) ==
    LET change == var_change(recent_var, older_var)
    IN  [drift_detected |-> ~IsNaN(recent_var) /\ ~IsNaN(older_var)
                            /\ 2 * change[1] > change[2],
         variance_change |-> IF change[2] = 0 THEN NaN
                             ELSE PyRound(1000 * change[1], change[2])]

\* if older_var == 0: drift_detected = False, else var_change > 0.5; the
\* variance_change is round(var_change, 3) in thousandths, 0 when var_change
\* was not computed.  A NaN compares false both with == 0 and with > 0.5.
drift_comparison(recent_var, older_var) ==
    IF ~IsNaN(older_var) /\ older_var[1] = 0
    THEN [drift_detected |-> FALSE, variance_change |-> 0]
    ELSE LET change == var_change(recent_var, older_var)
         IN  [drift_detected |-> ~IsNaN(change) /\ 2 * change[1] > change[2],
              variance_change |-> IF IsNaN(change) THEN NaN
                                  ELSE PyRound(1000 * change[1], change[2])]

\* Forecaster.detect_concept_drift(category, window_days).
detect_concept_drift(category, window_days) ==
    LET series == Counts(prepare_time_series_data(category, window_days * 2))
        n == Len(series)
    IN  IF n < window_days
        THEN [drift_detected |-> FALSE, reason |-> "insufficient_data"]
        ELSE LET recent_data == SubSeq(series, n - window_days + 1, n)
                 older_data == SubSeq(series, 1, window_days)
                 res == drift_comparison(var(recent_data), var(older_data))
             IN  [drift_detected |-> res.drift_detected,
                  variance_change |-> res.variance_change,
                  recommendation |-> IF res.drift_detected THEN "Retrain model"
                                     ELSE "Model performing well"]

\* Times of day, in hours after midnight, of the records offered to the
\* store, their ages in days, and their regions.  now is a midnight, so a
\* record of age a and hour h has the timestamp now - 24 * a + h - 24.
SaleHours == {0, 9, 14}
RecentAges == {0, 1, 2}
Regions == {"India", "US"}
DriftWindows == {1, 2, 3}

\* The calendar day of a timestamp.
Day(date) == date \div 24

\* prepare_time_series_data(category, days) called on its own.
PrepareTimeSeriesData(category, days) ==
    /\ request = NoRequest
    /\ request' = [op |-> "prepare_time_series_data",
                   category |-> category, days |-> days]
    /\ data' = prepare_time_series_data(category, days)
    /\ UNCHANGED <<now, sales, ARIMA_AVAILABLE, PROPHET_AVAILABLE, lib, forecast>>
    /\ UNCHANGED trendVars
    /\ UNCHANGED otherVars

\* detect_concept_drift(category, window_days).
DetectConceptDrift(category, window_days) ==
    /\ request = NoRequest
    /\ request' = [op |-> "detect_concept_drift",
                   category |-> category, window_days |-> window_days]
    /\ data' = prepare_time_series_data(category, window_days * 2)
    /\ returned' = [of |-> "detect_concept_drift",
                    report |-> detect_concept_drift(category, window_days)]
    /\ UNCHANGED <<now, sales, ARIMA_AVAILABLE, PROPHET_AVAILABLE, lib, forecast>>
    /\ UNCHANGED <<articles, tweets, google_trends, detected, agreement, warnings>>
    /\ UNCHANGED otherVars

InitPrepare == InitTrend

NextPrepare ==
    \/ \E age \in RecentAges, hour \in SaleHours, region \in Regions, c \in SaleCounts :
            InsertSale("phones", now - 24 * age + hour - 24, region, c)
    \/ \E days \in {2, LookbackDays} : PrepareTimeSeriesData("phones", days)
    \/ \E window_days \in DriftWindows : DetectConceptDrift("phones", window_days)
    \/ Return

SpecPrepare == InitPrepare /\ [][NextPrepare]_vars


-----------------------------------------------------------------------------
(* Claims about concept drift *)

Drifting == request.op = "detect_concept_drift"

\* The comparison is performed when the prepared series has window_days
\* entries or more.
Compared == Drifting /\ Len(data) >= request.window_days

OlderWindow == SubSeq(Counts(data), 1, request.window_days)
RecentWindow ==
    SubSeq(Counts(data), Len(data) - request.window_days + 1, Len(data))

\* n * (n - 1) times the sample variance of a window, as the sum of the
\* squared differences of its pairs of observations.
SquaredSpread(xs) ==
    SetSum({<<p, (xs[p[1]] - xs[p[2]]) * (xs[p[1]] - xs[p[2]])>> :
              p \in {q \in (1..Len(xs)) \X (1..Len(xs)) : q[1] < q[2]}})

\* C19: when detect_concept_drift performs the comparison, drift_detected
\* is true exactly when the older-window variance is non-zero and
\* |recent variance - older variance| / older variance exceeds 0.5; it is
\* false whenever the older-window variance is 0.
C19_DriftRule ==
    Compared =>
        LET older == SquaredSpread(OlderWindow)
            recent == SquaredSpread(RecentWindow)
        IN  /\ returned.report.drift_detected
                  = (/\ request.window_days >= 2
                     /\ older # 0
                     /\ 2 * Abs(recent - older) > older)
            /\ older = 0 => ~returned.report.drift_detected

\* The comparison has met an older window of variance 0 and a recent
\* window of positive variance.
C19_Witness ==
    /\ Compared
    /\ request.window_days >= 2
    /\ SquaredSpread(OlderWindow) = 0
    /\ SquaredSpread(RecentWindow) > 0
    /\ ~returned.report.drift_detected

\* The comparison has reported a drift.
DriftReported == Compared /\ returned.report.drift_detected


-----------------------------------------------------------------------------
(* Claims about the time-series preparer *)

Preparing == request.op = "prepare_time_series_data"

\* The records the query of the preparer selects: those of the category
\* inside the lookback window.
Observed ==
    {r \in sales : r.category = request.category
                   /\ r.date >= now - 24 * request.days}

ObservedDays == {Day(r.date) : r \in Observed}

\* C17: a non-empty result of prepare_time_series_data is sorted ascending
\* by date, its consecutive entries are one calendar day apart, it has
\* exactly one entry for every calendar day from the first to the last
\* observed day, and every entry has a value.
C17_DailySeries ==
    (Preparing /\ data # <<>>) =>
        /\ \A k \in 1..(Len(data) - 1) :
               /\ data[k].date < data[k + 1].date
               /\ Day(data[k + 1].date) = Day(data[k].date) + 1
        /\ \A day \in SetMin(ObservedDays)..SetMax(ObservedDays) :
               Cardinality({k \in 1..Len(data) : Day(data[k].date) = day}) = 1
        /\ \A k \in 1..Len(data) :
               /\ Day(data[k].date) \in SetMin(ObservedDays)..SetMax(ObservedDays)
               /\ data[k].sales_count # NaN

\* C18: when several records of the category fall on one calendar day, at
\* the same or at different times of day or in different regions, the
\* prepared value of that day is the sum of their counts, so that no record
\* inside the lookback window is left out of the aggregation.
C18_SameDaySum ==
    Preparing =>
        \A day \in ObservedDays :
            \E k \in 1..Len(data) :
                /\ Day(data[k].date) = day
                /\ data[k].sales_count
                       = SumCounts({r \in Observed : Day(r.date) = day})

\* The preparer has summed two records of one timestamp and two regions.
SameTimestampSummed ==
    /\ Preparing
    /\ \E r1, r2 \in Observed : r1.region # r2.region /\ r1.date = r2.date
    /\ \E k \in 1..Len(data) :
           data[k].sales_count
               = SumCounts({r \in Observed : r.date = data[k].date})


-----------------------------------------------------------------------------
(* Claims about the naive producer *)

\* The step of index i (from 0) as the naive producer is said to compute it:
\* level S/w, trend per step d/2, band of twice the standard deviation of
\* the averaging window, with the rounding and clamping of the result list.
HalfSlopePoint(series, i) ==
    LET n == Len(series)
        xs == Counts(series)
        w == Min(MovingWindow, n)
        tail == SubSeq(xs, n - w + 1, n)
        S == SeqSum(tail)
        Q == SeqSumSq(tail)
        d == IF n >= 3 THEN xs[n] - xs[n - 2] ELSE 0
        A == 2 * S + i * d * w
        B == 2 * w
        N == 4 * (w * Q - S * S)
        D == w * (w - 1)
    IN  [value |-> PyMax0(10 * PyRound(A, B)),
         lower_bound |-> IF w = 1 THEN PyMax0(NaN)
                         ELSE PyMax0(10 * RoundSurd(A, B, -1, N, D)),
         upper_bound |-> IF w = 1 THEN NaN
                         ELSE 10 * RoundSurd(A, B, 1, N, D)]

\* The naive producer has made the result served, from a non-empty series.
NaiveServed == Served /\ forecast.model = "Simple" /\ data # <<>>

\* C20: the naive producer takes as level the mean of the last
\* min(7, length) observations; with 3 observations or more it adds per step
\* a trend of slope (last - third-to-last) / 2, with fewer every step is the
\* level; the bounds are the step value minus and plus twice the standard
\* deviation of the averaging window.
C20_HalfSlope ==
    NaiveServed =>
        \A i \in 1..Len(forecast.forecasts) :
            LET said == HalfSlopePoint(data, i - 1)
            IN  /\ forecast.forecasts[i].value = said.value
                /\ forecast.forecasts[i].lower_bound = said.lower_bound
                /\ forecast.forecasts[i].upper_bound = said.upper_bound


-----------------------------------------------------------------------------
(* Claims about the ensemble interval *)

EnsembleServed == Served /\ forecast.model = "Ensemble"

\* The wider of the two producers' intervals at step i.
MinLower(i) == Min(ArimaProduced.forecasts[i].lower_bound,
                   ProphetProduced.forecasts[i].lower_bound)
MaxUpper(i) == Max(ArimaProduced.forecasts[i].upper_bound,
                   ProphetProduced.forecasts[i].upper_bound)

-----------------------------------------------------------------------------
(* The signal store under the calls of the two engines *)

\* categories = ['phones', 'laptops', 'fashion', 'home', 'food']
AllCategories == <<"phones", "laptops", "fashion", "home", "food">>

\* Forecaster.forecast_all_categories(days_ahead): the ensemble forecast of
\* every category, an exception of a call being kept as an error entry.
forecast_all_categories(days_ahead, arima_outcome, prophet_outcome) ==
    [i \in 1..Len(AllCategories) |->
        LET res == forecast_category(AllCategories[i], days_ahead, "ensemble",
                                     arima_outcome, prophet_outcome)
        IN  [category |-> AllCategories[i],
             forecast |-> IF res.model = "Raised" THEN [error |-> "raised"]
                          ELSE Returned(res)]]

RedditPost(title, subreddit, score, age) ==
    [title |-> title, subreddit |-> subreddit, score |-> score,
     created_date |-> now - age]

RedditCandidates ==
    { RedditPost("OnePlus review", "gadgets", 10, 12),
      RedditPost("OnePlus review", "india", 3, 12) }

\* DatabaseManager.insert_reddit_posts of one post: a post that repeats
\* (title, subreddit, created_date) of a stored one is skipped.
InsertRedditPost(post) ==
    /\ request = NoRequest
    /\ ~\E r \in reddit_posts : /\ r.title = post.title
                                /\ r.subreddit = post.subreddit
                                /\ r.created_date = post.created_date
    /\ reddit_posts' = reddit_posts \cup {post}
    /\ UNCHANGED <<now, request, models, forecast_cache, threads, retry>>
    /\ UNCHANGED forecastVars
    /\ UNCHANGED trendVars

\* Forecaster.forecast_all_categories(days_ahead).
ForecastAllCategories(days_ahead, arima_outcome, prophet_outcome) ==
    /\ request = NoRequest
    /\ request' = [op |-> "forecast_all_categories", days_ahead |-> days_ahead]
    /\ returned' = [of |-> "forecast_all_categories",
                    forecasts |-> forecast_all_categories(days_ahead,
                                      arima_outcome, prophet_outcome)]
    /\ UNCHANGED <<now, articles, tweets, google_trends, detected, agreement, warnings>>
    /\ UNCHANGED forecastVars
    /\ UNCHANGED otherVars

\* The windows and horizons handed to the core, which takes any int: the
\* bounds ge/le of the endpoints are not part of it.
CoreWindows == {48, 0, -24}
CoreHorizons == {1, 0, -1}

\* The windows handed to get_trend_velocity and get_growth_rate.
HalvedWindows == {1, 2, 25, 48}

InitStore == InitTrend

NextStore ==
    \/ \E i \in 1..2 : InsertArticle(i)
    \/ InsertTweet(1)
    \/ InsertGoogleTrend(1)
    \/ \E age \in {0, 6} : InsertSale("phones", now - 24 * age, "India", 5)
    \/ \E post \in RedditCandidates : InsertRedditPost(post)
    \/ \E window_hours \in CoreWindows : DetectTrends(window_hours)
    \/ GetEarlyWarnings(5000)
    \/ CheckCrossSourceAgreement(OnePlus, 24)
    \/ \E days_ahead \in CoreHorizons, arima_outcome \in LibOutcomes :
            ForecastCategory("phones", days_ahead, "ensemble",
                             arima_outcome, arima_outcome)
    \/ \E arima_outcome \in LibOutcomes :
            ForecastAllCategories(1, arima_outcome, arima_outcome)
    \/ \E window_days \in {1, 3} : DetectConceptDrift("phones", window_days)
    \/ \E window_hours \in HalvedWindows : GetTrendVelocity(OnePlus, window_hours)
    \/ \E window_hours \in HalvedWindows : GetGrowthRate(OnePlus, window_hours)
    \/ Return

SpecStore == InitStore /\ [][NextStore]_vars

\* The tables of the signal store.
storeTables == <<articles, tweets, google_trends, sales, reddit_posts>>

ReadingOps ==
    {"detect_trends", "get_early_warnings", "check_cross_source_agreement",
     "forecast_category", "forecast_all_categories", "detect_concept_drift"}

\* C22: detect_trends, get_early_warnings, check_cross_source_agreement,
\* forecast_category, forecast_all_categories and detect_concept_drift leave
\* every record of the articles, tweets, google_trends, ecommerce_sales and
\* reddit_posts tables as it was.
C22_ReadOnly ==
    [][(request = NoRequest /\ request'.op \in ReadingOps)
            => UNCHANGED storeTables]_vars

\* A call on all categories has been served from a store whose five tables
\* hold records.
C22_Witness ==
    /\ request.op \in ReadingOps
    /\ articles # {}
    /\ tweets # {}
    /\ google_trends # {}
    /\ sales # {}
    /\ reddit_posts # {}


-----------------------------------------------------------------------------
(* Concurrent calls on the shared Forecaster and TrendDetector instances.  *)
(* A call in flight is at one of three positions: called, prepared (its     *)
(* first query is done) and produced (its result is ready to return).       *)

ForecastCalls ==
    { [op |-> "forecast_category", category |-> c, days_ahead |-> 1,
       model |-> "simple", arima_outcome |-> NotCalled] : c \in Categories }
    \cup
    { [op |-> "forecast_category", category |-> c, days_ahead |-> 1,
       model |-> "arima", arima_outcome |-> o] : c \in Categories, o \in LibOutcomes }
DetectCalls == { [op |-> "detect_trends", window_hours |-> w] : w \in Windows }

\* The result of a call run alone against the store as it is.
alone(call) ==
    IF call.op = "forecast_category"
    THEN Returned(forecast_category(call.category, call.days_ahead, call.model,
                                    call.arima_outcome, NotCalled))
    ELSE detect_trends(call.window_hours)

AllIdle == \A t \in Threads : threads[t] = Idle

\* A request thread enters forecast_category or detect_trends.
ThreadCall(t, call) ==
    /\ threads[t] = Idle
    /\ threads' = [threads EXCEPT ![t] = [pc |-> "called", call |-> call]]
    /\ UNCHANGED <<now, request, reddit_posts, models, forecast_cache, retry>>
    /\ UNCHANGED forecastVars
    /\ UNCHANGED trendVars

\* The first query of the call: prepare_time_series_data into the local
\* data, or _extract_keywords into the local keywords.
ThreadPrepare(t) ==
    /\ threads[t].pc = "called"
    /\ LET call == threads[t].call
       IN  threads' = [threads EXCEPT ![t] =
               [pc |-> "prepared", call |-> call,
                local |-> IF call.op = "forecast_category"
                          THEN prepare_time_series_data(call.category, LookbackDays)
                          ELSE extract_keywords(call.window_hours)]]
    /\ UNCHANGED <<now, request, reddit_posts, models, forecast_cache, retry>>
    /\ UNCHANGED forecastVars
    /\ UNCHANGED trendVars

\* The variant of the second half that keeps the last result in
\* forecast_cache and serves it to the next call.
ThreadProduce_cached(t) ==
    /\ threads[t].pc = "prepared"
    /\ LET call == threads[t].call
           local == threads[t].local
           result == IF call.op = "forecast_category"
                     THEN Returned(forecast_prepared(local, call.category,
                              call.days_ahead, call.model, call.arima_outcome, NotCalled))
                     ELSE SortByStrength([i \in 1..Len(local) |->
                              trend_record(local[i], call.window_hours)])
       IN  /\ threads' = [threads EXCEPT ![t] =
                   [pc |-> "produced", call |-> call,
                    result |-> IF forecast_cache = <<>> THEN result
                               ELSE forecast_cache[1]]]
           /\ forecast_cache' = <<result>>
    /\ UNCHANGED <<now, request, reddit_posts, models, retry>>
    /\ UNCHANGED forecastVars
    /\ UNCHANGED trendVars

\* The rest of the call, on its local values: the model selection and the
\* metadata, or the metrics of every keyword and the sort.
ThreadProduce(t) ==
    /\ threads[t].pc = "prepared"
    /\ LET call == threads[t].call
           local == threads[t].local
       IN  threads' = [threads EXCEPT ![t] =
               [pc |-> "produced", call |-> call,
                result |-> IF call.op = "forecast_category"
                           THEN Returned(forecast_prepared(local, call.category,
                                    call.days_ahead, call.model,
                                    call.arima_outcome, NotCalled))
                           ELSE SortByStrength([i \in 1..Len(local) |->
                                    trend_record(local[i], call.window_hours)])]]
    /\ UNCHANGED <<now, request, reddit_posts, models, forecast_cache, retry>>
    /\ UNCHANGED forecastVars
    /\ UNCHANGED trendVars

\* The call returns its result to the client.
ThreadReturn(t) ==
    /\ threads[t].pc = "produced"
    /\ threads' = [threads EXCEPT ![t] = Idle]
    /\ UNCHANGED <<now, request, reddit_posts, models, forecast_cache, retry>>
    /\ UNCHANGED forecastVars
    /\ UNCHANGED trendVars

InitConcurrent == InitTrend

\* The store changes only while no call is in flight.
NextConcurrent ==
    \/ AllIdle /\ \E age \in {0, 1} : InsertSale("phones", now - 24 * age, "India", 5)
    \/ AllIdle /\ InsertSale("laptops", now, "India", 1)
    \/ AllIdle /\ \E i \in 1..2 : InsertArticle(i)
    \/ \E t \in Threads, call \in ForecastCalls : ThreadCall(t, call)
    \/ \E t \in Threads, call \in DetectCalls : ThreadCall(t, call)
    \/ \E t \in Threads : ThreadPrepare(t)
    \/ \E t \in Threads : ThreadProduce(t)
    \/ \E t \in Threads : ThreadReturn(t)

SpecConcurrent == InitConcurrent /\ [][NextConcurrent]_vars

\* C23: two calls running concurrently on the shared instances against an
\* unchanged store return what each returns when run alone, whatever the
\* order of their steps, and no call writes the in-process state (models,
\* forecast_cache) of the instance.
C23_Independent ==
    /\ models = <<>>
    /\ forecast_cache = <<>>
    /\ \A t \in Threads :
           threads[t].pc = "produced" => threads[t].result = alone(threads[t].call)

\* Two different calls are in flight together, one with its result ready
\* while the other is between its two halves.
C23_Witness ==
    \E t, u \in Threads :
        /\ threads[t].pc = "produced"
        /\ threads[u].pc = "prepared"
        /\ threads[t].call # threads[u].call
        /\ threads[t].call.op = "forecast_category"
        /\ threads[u].call.op = "forecast_category"
        /\ threads[t].call.category # threads[u].call.category
        /\ threads[t].result.forecasts[1].value > 0
        /\ threads[u].local # <<>>


-----------------------------------------------------------------------------
(* Claims about argument validation *)

\* C24: detect_trends called with window_hours <= 0 and forecast_category
\* called with days_ahead <= 0 signal an invalid argument, which is neither
\* a trend list nor a forecast result.
C24_InvalidArgument ==
    /\ (Detecting /\ request.window_hours <= 0)
           => (returned.of = "invalid_argument" /\ detected = <<>>)
    /\ (Served /\ request.days_ahead <= 0)
           => (returned.of = "invalid_argument" /\ forecast = NoForecast)

\* forecast_category has returned a forecast result for a horizon of zero
\* days or fewer.
NonPositiveHorizonServed ==
    /\ Served
    /\ request.days_ahead <= 0
    /\ forecast.model \in {"Simple", "Ensemble"}
    /\ forecast.forecasts = <<>>


-----------------------------------------------------------------------------
(* Sentiment analysis engine.  Probabilities and scores are fractions       *)
(* <<numerator, denominator>>; a rounded result is in thousandths.          *)

positive_words == <<
    <<"g", "o", "o", "d">>,
    <<"g", "r", "e", "a", "t">>,
    <<"e", "x", "c", "e", "l", "l", "e", "n", "t">>,
    <<"a", "m", "a", "z", "i", "n", "g">>,
    <<"l", "o", "v", "e">>,
    <<"b", "e", "s", "t">>,
    <<"f", "a", "n", "t", "a", "s", "t", "i", "c">>,
    <<"w", "o", "n", "d", "e", "r", "f", "u", "l">>,
    <<"a", "w", "e", "s", "o", "m", "e">>,
    <<"p", "e", "r", "f", "e", "c", "t">>,
    <<"h", "a", "p", "p", "y">>,
    <<"i", "n", "c", "r", "e", "d", "i", "b", "l", "e">>,
    <<"o", "u", "t", "s", "t", "a", "n", "d", "i", "n", "g">>,
    <<"b", "r", "i", "l", "l", "i", "a", "n", "t">>,
    <<"s", "u", "p", "e", "r", "b">> >>

negative_words == <<
    <<"b", "a", "d">>,
    <<"t", "e", "r", "r", "i", "b", "l", "e">>,
    <<"h", "o", "r", "r", "i", "b", "l", "e">>,
    <<"a", "w", "f", "u", "l">>,
    <<"h", "a", "t", "e">>,
    <<"w", "o", "r", "s", "t">>,
    <<"d", "i", "s", "a", "p", "p", "o", "i", "n", "t", "i", "n", "g">>,
    <<"p", "o", "o", "r">>,
    <<"u", "s", "e", "l", "e", "s", "s">>,
    <<"b", "o", "r", "i", "n", "g">>,
    <<"s", "l", "o", "w">>,
    <<"e", "x", "p", "e", "n", "s", "i", "v", "e">>,
    <<"o", "v", "e", "r", "p", "r", "i", "c", "e", "d">>,
    <<"m", "e", "d", "i", "o", "c", "r", "e">>,
    <<"d", "i", "s", "a", "p", "p", "o", "i", "n", "t", "i", "n", "g">> >>

entities_keywords == <<
    <<"i", "P", "h", "o", "n", "e">>,
    <<"O", "n", "e", "P", "l", "u", "s">>,
    <<"S", "a", "m", "s", "u", "n", "g">>,
    <<"X", "i", "a", "o", "m", "i">>,
    <<"R", "e", "a", "l", "m", "e">>,
    <<"O", "p", "p", "o">>,
    <<"V", "i", "v", "o">>,
    <<"A", "m", "a", "z", "o", "n">>,
    <<"F", "l", "i", "p", "k", "a", "r", "t">>,
    <<"l", "a", "p", "t", "o", "p">>,
    <<"p", "h", "o", "n", "e">>,
    <<"s", "m", "a", "r", "t", "p", "h", "o", "n", "e">>,
    <<"g", "a", "d", "g", "e", "t">>,
    <<"c", "a", "m", "e", "r", "a">>,
    <<"b", "a", "t", "t", "e", "r", "y">>,
    <<"d", "i", "s", "p", "l", "a", "y">>,
    <<"s", "c", "r", "e", "e", "n">> >>

\* The six words each that _extract_entities_simple looks for around an entity.
context_positive_words == SubSeq(positive_words, 1, 6)
context_negative_words == SubSeq(negative_words, 1, 6)

\* The texts handed to the analyzer.
SampleTexts == <<
    <<>>,
    <<"g", "o", "o", "d">>,
    <<" ", " ", " ", "o", "k", " ", " ", " ">>,
    <<"I", " ", "l", "o", "v", "e", " ", "t", "h", "i", "s", " ", "n", "e", "w", " ", "p", "h", "o", "n", "e", "!">>,
    <<"b", "a", "d", " ", "b", "a", "t", "t", "e", "r", "y">>,
    <<"A", "m", "a", "z", "o", "n", " ", "s", "a", "l", "e", " ", "s", "t", "a", "r", "t", "i", "n", "g", " ", "t", "o", "m", "o", "r", "r", "o", "w">>,
    <<"t", "h", "i", "s", " ", "p", "h", "o", "n", "e", " ", "i", "s", " ", "g", "o", "o", "d", " ", "b", "u", "t", " ", "i", " ", "d", "o", " ", "n", "o", "t", " ", "k", "n", "o", "w", " ", "w", "h", "a", "t", " ", "e", "l", "s", "e", " ", "t", "o", " ", "s", "a", "y">>,
    <<"d", "i", "s", "a", "p", "p", "o", "i", "n", "t", "i", "n", "g">>,
    <<"G", "r", "e", "a", "t", " ", "O", "n", "e", "P", "l", "u", "s", " ", "c", "a", "m", "e", "r", "a", ",", " ", "a", "w", "f", "u", "l", " ", "s", "c", "r", "e", "e", "n">> >>

\* What the pretrained pipeline does with a text: there is none (the
\* library is missing or the model failed to load), it throws, or it gives a
\* label with the probability of that label, in thousandths.
ModelScores == {500, 650, 899, 900, 950, 1000}
ModelLabels == { <<"P", "O", "S", "I", "T", "I", "V", "E">>,
                 <<"N", "E", "G", "A", "T", "I", "V", "E">> }
PipelineOutcomes ==
    {[status |-> "none"], [status |-> "throws"]}
    \cup {[status |-> "ok", label |-> l, score |-> s] :
            l \in ModelLabels, s \in ModelScores}

\* len(text.strip()) for texts whose only white space is the blank.
RECURSIVE StripLeft(_)
StripLeft(text) ==
    IF text # <<>> /\ Head(text) = " " THEN StripLeft(Tail(text)) ELSE text
RECURSIVE StripRight(_)
StripRight(text) ==
    IF text # <<>> /\ text[Len(text)] = " "
    THEN StripRight(SubSeq(text, 1, Len(text) - 1)) ELSE text
Strip(text) == StripRight(StripLeft(text))

\* len(text.split()): the number of maximal runs of non-blank characters.
WordCount(text) ==
    Cardinality({i \in 1..Len(text) :
                    text[i] # " " /\ (i = 1 \/ text[i - 1] = " ")})

\* sum(1 for word in words if word in text): a word listed twice counts twice.
CountIn(words, text) ==
    Cardinality({i \in 1..Len(words) : Contains(text, words[i])})

\* str.find: the index (from 0) of the first occurrence.
Find(text, pat) ==
    CHOOSE i \in 0..(Len(text) - Len(pat)) :
        /\ SubSeq(text, i + 1, i + Len(pat)) = pat
        /\ \A j \in 0..(i - 1) : SubSeq(text, j + 1, j + Len(pat)) # pat

\* round(x, 3) of the fraction x, in thousandths.
Round3(x) == PyRound(1000 * x[1], x[2])

\* text[:100] + "..." if len(text) > 100 else text
Shown(text) ==
    IF Len(text) > 100 THEN SubSeq(text, 1, 100) \o <<".", ".", ".">> ELSE text

\* SentimentAnalyzer._calculate_trend_signal: above 0.3 up, below -0.3 down.
calculate_trend_signal(sentiment_score) ==
    IF 10 * sentiment_score[1] > 3 * sentiment_score[2] THEN "up"
    ELSE IF 10 * sentiment_score[1] < -3 * sentiment_score[2] THEN "down"
    ELSE "stable"

RECURSIVE SelectSeq2(_, _)
\* The entries of a sequence of records that are flagged found, in order.
SelectSeq2(s, i) ==
    IF i > Len(s) THEN <<>>
    ELSE IF s[i].found THEN <<s[i].entity>> \o SelectSeq2(s, i + 1)
    ELSE SelectSeq2(s, i + 1)

\* SentimentAnalyzer._extract_entities_simple: every entity keyword the
\* lower-cased text holds, with the sentiment (in tenths) of the 30
\* characters on each side of its first occurrence.
extract_entities_simple(text) ==
    LET text_lower == Lower(text)
        entry(k) ==
            LET keyword == entities_keywords[k]
                found == Contains(text_lower, Lower(keyword))
            IN  IF ~found THEN [found |-> FALSE]
                ELSE LET idx == Find(text_lower, Lower(keyword))
                         start == Max(0, idx - 30)
                         end == Min(Len(text), idx + Len(keyword) + 30)
                         context == Lower(SubSeq(text, start + 1, end))
                         pos_count == CountIn(context_positive_words, context)
                         neg_count == CountIn(context_negative_words, context)
                     IN  [found |-> TRUE,
                          entity |-> [text |-> keyword,
                                      sentiment |-> IF pos_count > neg_count THEN 5
                                                    ELSE IF neg_count > pos_count THEN -5
                                                    ELSE 0,
                                      type |-> "product",
                                      confidence |-> 7]]
    IN  SelectSeq2([k \in 1..Len(entities_keywords) |-> entry(k)], 1)

\* entities[:5]
Top5(entities) == SubSeq(entities, 1, Min(5, Len(entities)))

\* The result of analyze for a text that is empty or, stripped, shorter than
\* 5 characters.
too_short(text) ==
    [text |-> text, overall_sentiment |-> 0, confidence |-> 0,
     emotion |-> [positive |-> 0, negative |-> 0, neutral |-> 1000],
     entities |-> <<>>, trend_signal |-> "stable", error |-> "text_too_short"]

\* SentimentAnalyzer._analyze_with_model for the label and the score (in
\* thousandths) of the pipeline: the label's share is the score, the other
\* label's share 1 - score, and neutral is 1 - abs(overall_sentiment).
analyze_with_model(text, label, score) ==
    LET positive == Contains(label, <<"P", "O", "S">>)
        overall_sentiment == IF positive THEN <<score, 1000>> ELSE <<-score, 1000>>
    IN  [text |-> Shown(text),
         overall_sentiment |-> Round3(overall_sentiment),
         confidence |-> score,
         emotion |-> [positive |-> IF positive THEN score ELSE 1000 - score,
                      negative |-> IF positive THEN 1000 - score ELSE score,
                      neutral |-> 1000 - Abs(overall_sentiment[1])],
         entities |-> Top5(extract_entities_simple(text)),
         trend_signal |-> calculate_trend_signal(overall_sentiment)]

\* SentimentAnalyzer._mock_analysis: the keyword heuristic.
mock_analysis(text) ==
    LET text_lower == Lower(text)
        positive_count == CountIn(positive_words, text_lower)
        negative_count == CountIn(negative_words, text_lower)
        total_words == WordCount(text)
        raw == IF total_words = 0 THEN <<0, 1>>
               ELSE IF total_words <= 10 THEN <<positive_count - negative_count, 1>>
               ELSE <<10 * (positive_count - negative_count), total_words>>
        sentiment_score == IF raw[1] > raw[2] THEN <<1, 1>>
                           ELSE IF raw[1] < -raw[2] THEN <<-1, 1>>
                           ELSE raw
        n == sentiment_score[1]
        d == sentiment_score[2]
        \* min(abs(sentiment_score) + 0.3, 0.95)
        confidence == IF 20 * Abs(n) + 6 * d >= 19 * d THEN <<19, 20>>
                      ELSE <<10 * Abs(n) + 3 * d, 10 * d>>
        positive_prob == <<n + d, 2 * d>>
        negative_prob == <<d - n, 2 * d>>
        \* max(0, 1.0 - positive_prob - negative_prob)
        neutral_prob == <<Max(0, 2 * d - (n + d) - (d - n)), 2 * d>>
    IN  [text |-> Shown(text),
         overall_sentiment |-> Round3(sentiment_score),
         confidence |-> Round3(confidence),
         emotion |-> [positive |-> Round3(positive_prob),
                      negative |-> Round3(negative_prob),
                      neutral |-> Round3(neutral_prob)],
         entities |-> Top5(extract_entities_simple(text)),
         trend_signal |-> calculate_trend_signal(sentiment_score)]

\* SentimentAnalyzer.analyze(text) for one behaviour of the pipeline.
analyze(text, pipeline) ==
    IF text = <<>> \/ Len(Strip(text)) < 5 THEN too_short(text)
    ELSE LET cut == SubSeq(text, 1, Min(512, Len(text)))
         IN  IF pipeline.status = "ok"
             THEN analyze_with_model(cut, pipeline.label, pipeline.score)
             ELSE mock_analysis(cut)

Analyze(text, pipeline) ==
    /\ request = NoRequest
    /\ request' = [op |-> "analyze", text |-> text, pipeline |-> pipeline]
    /\ returned' = [of |-> "analyze", result |-> analyze(text, pipeline)]
    /\ UNCHANGED <<now, articles, tweets, google_trends, detected, agreement, warnings>>
    /\ UNCHANGED forecastVars
    /\ UNCHANGED otherVars

InitSentiment == InitTrend

NextSentiment ==
    \/ \E i \in 1..Len(SampleTexts), pipeline \in PipelineOutcomes :
            Analyze(SampleTexts[i], pipeline)
    \/ Return

SpecSentiment == InitSentiment /\ [][NextSentiment]_vars

-----------------------------------------------------------------------------
(* Claims about the sentiment analyzer *)

Analyzing == request.op = "analyze"

NonBlank(text) == Cardinality({i \in 1..Len(text) : text[i] # " "})

EmotionTotal ==
    returned.result.emotion.positive + returned.result.emotion.negative
    + returned.result.emotion.neutral

\* C25: for every text of at least 5 non-blank characters the emotion
\* breakdown of analyze (positive + negative + neutral) sums to between 0.9
\* and 1.1, when the pretrained model scores the text and when the keyword
\* heuristic does, for every confidence score of the model.
C25_EmotionTotal ==
    (Analyzing /\ NonBlank(request.text) >= 5) =>
        (EmotionTotal >= 900 /\ EmotionTotal <= 1100)

\* C25 for the keyword heuristic alone.
HeuristicEmotionTotal ==
    (Analyzing /\ NonBlank(request.text) >= 5 /\ request.pipeline.status # "ok") =>
        EmotionTotal = 1000


-----------------------------------------------------------------------------
(* Claims about the windows of the drift comparison *)

\* The positions in the prepared series of data.head(window_days) and of
\* data.tail(window_days).
OlderPositions == 1..Min(request.window_days, Len(data))
RecentPositions == Max(1, Len(data) - request.window_days + 1)..Len(data)

\* C26: whenever detect_concept_drift(category, W) does not short-circuit
\* with insufficient_data, the older and the recent window hold W
\* observations each and share none, so that a series of at least W but
\* fewer than 2W observations is never compared against itself.
C26_DisjointWindows ==
    Compared =>
        /\ Cardinality(OlderPositions) = request.window_days
        /\ Cardinality(RecentPositions) = request.window_days
        /\ OlderPositions \cap RecentPositions = {}

\* A series of exactly W observations, not all equal, has been compared
\* against itself.
ComparedAgainstItself ==
    /\ Compared
    /\ request.window_days >= 2
    /\ OlderPositions = RecentPositions
    /\ SquaredSpread(OlderWindow) > 0
    /\ ~returned.report.drift_detected


-----------------------------------------------------------------------------
(* Claims about the two halves of the detection window *)

Halving == request.op \in {"get_trend_velocity", "get_growth_rate"}

\* The articles of the detection window that mention the keyword.
InWindow(keyword, window_hours) ==
    {a \in articles : /\ Like(a, keyword)
                      /\ a.fetched_date >= now - window_hours
                      /\ a.fetched_date <= now}

\* The lengths in hours of the two sub-windows, [midpoint, now] and
\* [cutoff_time, midpoint).
RecentLength(window_hours) == now - midpoint(window_hours)
OlderLength(window_hours) == midpoint(window_hours) - cutoff_time(window_hours)

\* C27: for every window_hours >= 1 the older and the recent sub-window of
\* get_trend_velocity and get_growth_rate are disjoint, cover the detection
\* window, and have equal length up to rounding, neither being empty; every
\* article of the window is counted in exactly one half.
C27_Halves ==
    (Halving /\ request.window_hours >= 1) =>
        LET w == request.window_hours
            recent == RecentHalf(request.keyword, w)
            older == OlderHalf(request.keyword, w)
        IN  /\ recent \cap older = {}
            /\ recent \cup older = InWindow(request.keyword, w)
            /\ RecentLength(w) + OlderLength(w) = w
            /\ Abs(RecentLength(w) - OlderLength(w)) <= 1
            /\ RecentLength(w) > 0
            /\ OlderLength(w) > 0

\* C27 for windows of two hours and more.
HalvesFromTwoHours ==
    (Halving /\ request.window_hours >= 2) =>
        LET w == request.window_hours
            recent == RecentHalf(request.keyword, w)
            older == OlderHalf(request.keyword, w)
        IN  /\ recent \cap older = {}
            /\ recent \cup older = InWindow(request.keyword, w)
            /\ Abs(RecentLength(w) - OlderLength(w)) <= 1
            /\ RecentLength(w) > 0
            /\ OlderLength(w) > 0


-----------------------------------------------------------------------------
(* Ingestion: DatabaseManager.insert_articles *)

MaxBatch == 2

\* The articles offered to insert_articles: the columns the model reads and
\* the url.  The last two are two fetches of one url.
Offer(url, title, content, score, age) ==
    [url |-> url, title |-> title, content |-> content,
     sentiment_score |-> score, fetched_date |-> now - age]
OfferedArticles == <<
    Offer("oneplus-news", <<"O", "n", "e", "P", "l", "u", "s">>, <<"n", "e", "w", "s">>, <<1>>, 36),
    Offer("iphone-sale", <<"i", "P", "h", "o", "n", "e", " ", "s", "a", "l", "e">>, <<"n", "e", "w", "s">>, <<-50>>, 30),
    Offer("iphone-deal", <<"i", "P", "h", "o", "n", "e", " ", "d", "e", "a", "l">>, <<"n", "e", "w", "s">>, <<100>>, 6),
    Offer("iphone-deal", <<"i", "P", "h", "o", "n", "e", " ", "d", "e", "a", "l">>, <<"f", "l", "o", "p">>, <<-100>>, 6)
    >>
Batches ==
    UNION {[1..n -> {OfferedArticles[i] : i \in 1..Len(OfferedArticles)}] :
                n \in 0..MaxBatch}

\* id INTEGER PRIMARY KEY AUTOINCREMENT: one more than the largest id.
next_id(table) == IF table = {} THEN 1 ELSE SetMax({a.id : a \in table}) + 1

\* One INSERT INTO articles: url TEXT UNIQUE NOT NULL makes the statement
\* raise sqlite3.IntegrityError, and add nothing, when the url is stored.
IntegrityError(table, article) == \E a \in table : a.url = article.url
execute_insert(table, article) ==
    table \cup {[id |-> next_id(table), url |-> article.url,
                 title |-> article.title, content |-> article.content,
                 sentiment_score |-> article.sentiment_score,
                 fetched_date |-> article.fetched_date]}

\* The variant of insert_articles whose try block is around the loop: the
\* first duplicate ends the batch.
RECURSIVE insert_articles_aborting(_, _)
insert_articles_aborting(table, batch) ==
    IF batch = <<>> THEN [table |-> table, inserted_count |-> 0]
    ELSE IF IntegrityError(table, Head(batch))
    THEN [table |-> table, inserted_count |-> 0]
    ELSE LET rest == insert_articles_aborting(execute_insert(table, Head(batch)),
                                              Tail(batch))
         IN  [table |-> rest.table, inserted_count |-> rest.inserted_count + 1]

\* DatabaseManager.insert_articles(articles): the table after the batch and
\* the returned inserted_count.  The loop tries every article; a duplicate
\* is skipped and inserted_count counts the statements that did not raise.
RECURSIVE insert_articles(_, _)
insert_articles(table, batch) ==
    IF batch = <<>> THEN [table |-> table, inserted_count |-> 0]
    ELSE IF IntegrityError(table, Head(batch))
    THEN insert_articles(table, Tail(batch))
    ELSE LET rest == insert_articles(execute_insert(table, Head(batch)),
                                     Tail(batch))
         IN  [table |-> rest.table, inserted_count |-> rest.inserted_count + 1]

InsertArticles(batch) ==
    /\ request = NoRequest
    /\ request' = [op |-> "insert_articles", batch |-> batch]
    /\ articles' = insert_articles(articles, batch).table
    /\ returned' = [of |-> "insert_articles",
                    inserted_count |-> insert_articles(articles, batch).inserted_count]
    /\ UNCHANGED <<now, tweets, google_trends, detected, agreement, warnings>>
    /\ UNCHANGED forecastVars
    /\ UNCHANGED otherVars

\* The API takes a threshold from 0 to 100; 0 and the default 50.
WarningThresholds == {0, 5000}
IngestedSamples == {1, 3}

InitIngest == InitTrend

NextIngest ==
    \/ \E batch \in Batches : InsertArticles(batch)
    \/ InsertTweet(1)
    \/ \E i \in IngestedSamples : InsertGoogleTrend(i)
    \/ \E threshold \in WarningThresholds : GetEarlyWarnings(threshold)
    \/ Return

SpecIngest == InitIngest /\ [][NextIngest]_vars

-----------------------------------------------------------------------------
(* Claims about the recommendation of a warning *)

\* The record of detect_trends(48) that a warning was made from.
TrendOf(warning) ==
    detected[CHOOSE j \in 1..Len(detected) : detected[j].keyword = warning.keyword]

\* C28: the recommendation of every warning of get_early_warnings is one of
\* OPPORTUNITY, RISK, CAUTION and MONITOR, never the generic WATCH; a warning
\* with velocity > 0.5 and average sentiment in [-0.3, 0.3], or with
\* velocity < -0.5 and average sentiment <= 0, gets MONITOR.
C28_Recommendation ==
    Warning =>
        \A i \in 1..Len(warnings) :
            LET velocity == warnings[i].velocity
                sentiment == TrendOf(warnings[i]).avg_sentiment
            IN  /\ warnings[i].recommendation
                       \in {"OPPORTUNITY", "RISK", "CAUTION", "MONITOR"}
                /\ (velocity > 500 /\ sentiment >= -300 /\ sentiment <= 300)
                       => warnings[i].recommendation = "MONITOR"
                /\ (velocity < -500 /\ sentiment <= 0)
                       => warnings[i].recommendation = "MONITOR"

\* A warning about a falling keyword of non-positive sentiment, with MONITOR.
C28_Witness ==
    /\ Warning
    /\ \E i \in 1..Len(warnings) :
          /\ warnings[i].velocity < -500
          /\ TrendOf(warnings[i]).avg_sentiment <= 0
          /\ warnings[i].recommendation = "MONITOR"

RisingMonitored ==
    /\ Warning
    /\ \E i \in 1..Len(warnings) :
          /\ warnings[i].velocity > 500
          /\ TrendOf(warnings[i]).avg_sentiment >= -300
          /\ TrendOf(warnings[i]).avg_sentiment <= 300
          /\ warnings[i].recommendation = "MONITOR"

-----------------------------------------------------------------------------
(* Claims about insert_articles *)

Inserting == request.op = "insert_articles"
Stored(table, article) == \E a \in table : a.url = article.url

\* C30: after any insert_articles call no two stored articles share a url;
\* the call returns the number of rows it added; an article whose url is
\* stored, or comes earlier in the batch, is skipped and the rest of the
\* batch is still inserted, so a batch whose urls are all stored (as after
\* its first insertion) returns 0 and leaves the table unchanged.
C30_InsertArticles ==
    [][(request = NoRequest /\ request'.op = "insert_articles") =>
          LET batch == request'.batch
          IN  /\ \A a, b \in articles' : a.url = b.url => a = b
              /\ returned'.inserted_count
                     = Cardinality(articles') - Cardinality(articles)
              /\ articles \subseteq articles'
              /\ \A i \in 1..Len(batch) : Stored(articles', batch[i])
              /\ (\A i \in 1..Len(batch) : Stored(articles, batch[i]))
                     => /\ returned'.inserted_count = 0
                        /\ articles' = articles]_vars

\* A batch of two: the first was a duplicate of a stored row with another
\* content, the second was added after it.
C30_Witness ==
    /\ Inserting
    /\ Len(request.batch) = 2
    /\ returned.inserted_count = 1
    /\ \E a \in articles : /\ a.url = request.batch[1].url
                           /\ a.content # request.batch[1].content
    /\ \E a \in articles : /\ a.url = request.batch[2].url
                           /\ a.content = request.batch[2].content
                           /\ a.id = next_id(articles) - 1
                           /\ a.id > 1


-----------------------------------------------------------------------------
(* Ingestion: BaseCollector.retry_with_backoff *)

MaxRetries == 3
RETRY_BACKOFF_FACTOR == 2

\* What one call of func does: it returns a value or raises an exception.
FuncOutcomes ==
    {[raised |-> FALSE, value |-> v] : v \in {"rows", "none"}}
    \cup {[raised |-> TRUE, value |-> e] :
            e \in {"Timeout", "ConnectionError", "HTTPError"}}

RECURSIVE Pow(_, _)
Pow(b, k) == IF k = 0 THEN 1 ELSE b * Pow(b, k - 1)

\* The variant of the wait that grows by the factor times the attempt.
wait_time_linear(attempt) == RETRY_BACKOFF_FACTOR * attempt

\* wait_time = config.RETRY_BACKOFF_FACTOR ** attempt
wait_time(attempt) == Pow(RETRY_BACKOFF_FACTOR, attempt)

retryRest == <<now, request, reddit_posts, models, forecast_cache, threads>>

\* The call enters the loop for attempt in range(max_retries); a loop over
\* an empty range falls through and the method returns None.
RetryWithBackoff(max_retries) ==
    /\ retry = NoRetry
    /\ retry' = IF max_retries > 0
                THEN [pc |-> "try", max_retries |-> max_retries, attempt |-> 0,
                      calls |-> <<>>, slept |-> <<>>]
                ELSE [pc |-> "returned", max_retries |-> max_retries,
                      attempt |-> 0, calls |-> <<>>, slept |-> <<>>,
                      result |-> "None"]
    /\ UNCHANGED <<retryRest, forecastVars, trendVars>>

\* try: return func() / except Exception: raise on the last attempt,
\* otherwise compute wait_time and go to time.sleep.
CallFunc(outcome) ==
    /\ retry.pc = "try"
    /\ LET calls == Append(retry.calls, outcome)
       IN  retry' =
             IF ~outcome.raised
             THEN [retry EXCEPT !.pc = "returned", !.calls = calls]
                      @@ [result |-> outcome.value]
             ELSE IF retry.attempt = retry.max_retries - 1
             THEN [retry EXCEPT !.pc = "raised", !.calls = calls]
                      @@ [exception |-> outcome.value]
             ELSE [retry EXCEPT !.pc = "sleeping", !.calls = calls]
                      @@ [wait_time |-> wait_time(retry.attempt)]
    /\ UNCHANGED <<retryRest, forecastVars, trendVars>>

\* time.sleep(wait_time) returns and the loop takes the next attempt.
Sleep ==
    /\ retry.pc = "sleeping"
    /\ retry' = [pc |-> "try", max_retries |-> retry.max_retries,
                 attempt |-> retry.attempt + 1, calls |-> retry.calls,
                 slept |-> Append(retry.slept, retry.wait_time)]
    /\ UNCHANGED <<retryRest, forecastVars, trendVars>>

\* The caller has the result or the exception.
RetryDone ==
    /\ retry.pc \in {"returned", "raised"}
    /\ retry' = NoRetry
    /\ UNCHANGED <<retryRest, forecastVars, trendVars>>

InitRetry == InitTrend

NextRetry ==
    \/ \E max_retries \in 0..MaxRetries : RetryWithBackoff(max_retries)
    \/ \E outcome \in FuncOutcomes : CallFunc(outcome)
    \/ Sleep
    \/ RetryDone

SpecRetry == InitRetry /\ [][NextRetry]_vars

-----------------------------------------------------------------------------
(* Claims about retry_with_backoff *)

Retrying == retry.pc # "idle" /\ retry.max_retries >= 1
Failed(k) == retry.calls[k].raised

\* The waits so far are 1, 2, 4, ... seconds: the first is
\* RETRY_BACKOFF_FACTOR ** 0 and each next one is the factor times the last.
BackoffWaits(n) ==
    /\ Len(retry.slept) = n
    /\ n > 0 => retry.slept[1] = 1
    /\ \A k \in 1..(n - 1) : retry.slept[k + 1] = RETRY_BACKOFF_FACTOR * retry.slept[k]

ThirdFailureRaised ==
    /\ retry.pc = "raised"
    /\ retry.max_retries = 3
    /\ retry.slept = <<1, 2>>
    /\ retry.exception = "HTTPError"
    /\ retry.calls[1].value = "Timeout"

====
